---- MODULE Spec2Model ----
(***************************************************************************)
(* Options strategy recommendation engine (zy901017/optionflow).           *)
(*                                                                         *)
(* Three strategy pipelines of the repository are modelled:                *)
(*   - "enhanced": generateAllStrategies (src/lib/enhancedStrategyEngine)  *)
(*   - "real":     generateStrategiesWithRealPrices (api/analyze-v3)       *)
(*   - "baseline": generateStrategies (strategyEngine) followed by         *)
(*                 scoreAndRankStrategies (src/lib/scoringSystem)          *)
(* together with the volatility model and the option-chain matcher.        *)
(*                                                                         *)
(* Numbers.  A JavaScript number is modelled as an exact rational          *)
(* [n |-> numerator, d |-> denominator] in lowest terms with d > 0; the    *)
(* three non-finite values are the rationals with d = 0:                   *)
(*   +Infinity = 1/0,  -Infinity = -1/0,  NaN = 0/0.                       *)
(* Arithmetic is exact (no binary rounding error); Math.sqrt is taken to   *)
(* four decimal places and the normal density to four decimal places on    *)
(* a grid of tenths.  Amounts are in dollars.                              *)
(***************************************************************************)
EXTENDS Integers, Sequences, FiniteSets, TLC

(***************************************************************************)
(* Integer helpers                                                         *)
(***************************************************************************)
Abs(x) == IF x < 0 THEN -x ELSE x

Sign(x) == IF x > 0 THEN 1 ELSE IF x < 0 THEN -1 ELSE 0

Min(a, b) == IF a < b THEN a ELSE b

RECURSIVE GCD(_, _)
GCD(a, b) == IF b = 0 THEN a ELSE GCD(b, a % b)

\* floor(sqrt(n)) by bisection on [lo, hi)
RECURSIVE ISqrtIn(_, _, _)
ISqrtIn(n, lo, hi) ==
  IF hi - lo <= 1 THEN lo
  ELSE LET mid == (lo + hi) \div 2
       IN  IF mid * mid <= n THEN ISqrtIn(n, mid, hi) ELSE ISqrtIn(n, lo, mid)

ISqrt(n) == ISqrtIn(n, 0, 46341)

(***************************************************************************)
(* Numbers: exact rationals extended with +Infinity, -Infinity and NaN     *)
(***************************************************************************)
Q(n, d) ==
  IF d = 0 THEN [n |-> Sign(n), d |-> 0]
  ELSE LET g == GCD(Abs(n), Abs(d))
           s == Sign(d)
       IN  [n |-> s * (n \div g), d |-> s * (d \div g)]

Num(i) == [n |-> i, d |-> 1]

NaN == [n |-> 0, d |-> 0]

PInf == [n |-> 1, d |-> 0]

NInf == [n |-> -1, d |-> 0]

IsNaN(x) == x.d = 0 /\ x.n = 0

IsFinite(x) == x.d # 0

IsInt(x) == x.d = 1

\* x * y, cross-reduced before multiplying; Infinity * 0 = NaN
QMul(x, y) ==
  IF x.d = 0 \/ y.d = 0 THEN Q(x.n * y.n, 0)
  ELSE LET g1 == GCD(Abs(x.n), y.d)
           g2 == GCD(Abs(y.n), x.d)
       IN  Q((x.n \div g1) * (y.n \div g2), (x.d \div g2) * (y.d \div g1))

\* 1 / x; 1/0 = +Infinity, 1/Infinity = 0
QInv(x) == IF x.d = 0 THEN Q(0, Abs(x.n)) ELSE Q(x.d, x.n)

QDiv(x, y) == QMul(x, QInv(y))

QNeg(x) == [n |-> -x.n, d |-> x.d]

\* x + y; Infinity + (-Infinity) = NaN
QAdd(x, y) ==
  IF IsNaN(x) \/ IsNaN(y) THEN NaN
  ELSE IF x.d = 0 /\ y.d = 0 THEN (IF x.n = y.n THEN x ELSE NaN)
  ELSE IF x.d = 0 THEN x
  ELSE IF y.d = 0 THEN y
  ELSE LET g == GCD(x.d, y.d)
       IN  Q(x.n * (y.d \div g) + y.n * (x.d \div g), x.d * (y.d \div g))

QSub(x, y) == QAdd(x, QNeg(y))

\* x < y as JavaScript evaluates it: false when either side is NaN
QLess(x, y) ==
  IF IsNaN(x) \/ IsNaN(y) THEN FALSE
  ELSE IF x.d = 0 /\ y.d = 0 THEN x.n < y.n
  ELSE IF x.d = 0 THEN x.n < 0
  ELSE IF y.d = 0 THEN y.n > 0
  ELSE x.n * y.d < y.n * x.d

QLeq(x, y) == ~IsNaN(x) /\ ~IsNaN(y) /\ ~QLess(y, x)

\* Math.min / Math.max: NaN if either argument is NaN
QMin(x, y) == IF IsNaN(x) \/ IsNaN(y) THEN NaN ELSE IF QLess(y, x) THEN y ELSE x

QMax(x, y) == IF IsNaN(x) \/ IsNaN(y) THEN NaN ELSE IF QLess(x, y) THEN y ELSE x

\* Math.round: nearest integer, halves towards +Infinity
QRound(x) ==
  IF x.d = 0 THEN x
  ELSE LET q == x.n \div x.d
           r == x.n % x.d
       IN  Num(IF r >= x.d - r THEN q + 1 ELSE q)

\* Math.ceil
QCeil(x) == IF x.d = 0 THEN x ELSE Num(-((-x.n) \div x.d))

\* Math.abs
QAbs(x) == [n |-> Abs(x.n), d |-> x.d]

\* truthiness of a number: 0 and NaN are falsy
Truthy(x) == ~IsNaN(x) /\ x.n # 0

(***************************************************************************)
(* Bounds and input domains                                                *)
(***************************************************************************)
\* largest number of raw contracts in the option-chain feed
MaxQuotes == 3

\* largest days-to-expiration of a request
MaxDte == 14
\* the latest day, counted from the first run, on which the pipeline is rerun
MaxDaysLater == 3
\* how many times the clock of the cache advances
MaxTicks == 3
\* how many requests the analyze handler receives
MaxInvocations == 3

\* spot prices (dollars)
Prices == {Num(1), Q(25050, 100)}

\* spot prices of the underlying whose option chain RawUniverse lists
ChainPrices == {Num(240), Q(25050, 100)}

\* implied volatilities (decimal)
IVs == {Q(5, 100), Q(35, 100)}

Dtes == {3, 7, MaxDte}

IvRankValues == {20, 45, 60, 72, 75}

Trends == {"bullish", "bearish", "neutral"}

TaScoreValues == {45, 75}

\* spot prices and volatilities for the volatility band on its own
BandPrices == {Num(1), Q(1004, 1000), Q(250, 100), Q(995, 10), Q(25050, 100)}

BandIVs == {Q(5, 100), Q(12, 100), Q(35, 100), Q(80, 100)}

\* inputs a caller may pass that are not a positive number: missing (null or
\* undefined, both falsy), zero, negative
InvalidPrices == {[n |-> 0, d |-> -1], [n |-> 0, d |-> 1], [n |-> -1, d |-> 1]}

InvalidIVs == {[n |-> 0, d |-> 1], [n |-> -1, d |-> 20]}

\* days to expiration passed to the volatility model on its own: the request's
\* dte, zero, or a negative number of days
BandDtes(requested) == {requested, 0, -requested}

\* spot prices handed to the baseline generator
BaselinePrices == Prices \cup {[n |-> 0, d |-> 1], [n |-> -1, d |-> 1]}

\* spot prices and range bounds for the in-range probability on its own
ProbabilityPrices == {[n |-> 100, d |-> 1], [n |-> 501, d |-> 2]}

RangeBounds ==
  {[n |-> -1, d |-> 0], [n |-> -5, d |-> 1], [n |-> 0, d |-> 1], [n |-> 95, d |-> 1],
   [n |-> 100, d |-> 1], [n |-> 260, d |-> 1], [n |-> 1, d |-> 0]}

\* gamma summaries handed to adjustVolatilityWithGEX for a spot price: none, the
\* default the handlers build, one without a zero-gamma level, and available
\* summaries with the zero-gamma level at 101% and at 110% of the spot price
GexInputs(spot) ==
  {[present |-> FALSE],
   [present |-> TRUE, zero_gamma |-> spot, gamma_environment |-> "neutral",
    available |-> FALSE],
   [present |-> TRUE, zero_gamma |-> [n |-> 0, d |-> -1],
    gamma_environment |-> "positive", available |-> FALSE]}
  \cup {[present |-> TRUE, zero_gamma |-> [n |-> level, d |-> 1],
         gamma_environment |-> env, available |-> TRUE] :
          level \in {(spot.n * 101) \div (spot.d * 100), (spot.n * 110) \div (spot.d * 100)},
          env \in {"positive", "negative", "neutral"}}

\* target strikes looked up in a side list on their own
TargetStrikes == {[n |-> 225, d |-> 1], [n |-> 230, d |-> 1], [n |-> 265, d |-> 1]}

\* daily change of the quote, in percent
ChangePercents == {-3, 0, 3}

\* gamma-exposure summaries; the first is the default the handlers build
GexSummaries ==
  {[gamma_environment |-> "neutral", available |-> FALSE],
   [gamma_environment |-> "positive", available |-> TRUE],
   [gamma_environment |-> "negative", available |-> TRUE]}

(***************************************************************************)
(* VolatilityModel (src/lib/taScore.js)                                    *)
(***************************************************************************)
\* JavaScript null
Null == [n |-> 0, d |-> -1]

IsNull(x) == x.d = -1

\* ToNumber: null converts to 0
ToNumber(x) == IF IsNull(x) THEN Num(0) ELSE x

\* Math.sqrt(dte / 365), to four decimal places; NaN for a negative dte
TimeFactor(days) == IF days < 0 THEN NaN ELSE Q(ISqrt((days * 10^8) \div 365), 10^4)

\* Math.round(x * 100) / 100
Round2(x) == QDiv(QRound(QMul(x, Num(100))), Num(100))

NoBand == [valid |-> FALSE]

\* the band returned for the unrounded 1-sigma and 2-sigma moves
VolatilityBand(currentPrice, oneSigmaMove, twoSigmaMove) ==
  [valid |-> TRUE,
   currentPrice |-> currentPrice,
   oneSigma |-> [upper |-> Round2(QAdd(currentPrice, oneSigmaMove)),
                 lower |-> Round2(QSub(currentPrice, oneSigmaMove)),
                 move |-> Round2(oneSigmaMove)],
   twoSigma |-> [upper |-> Round2(QAdd(currentPrice, twoSigmaMove)),
                 lower |-> Round2(QSub(currentPrice, twoSigmaMove)),
                 move |-> Round2(twoSigmaMove)]]

\* price * iv * sqrt(dte / 365)
OneSigmaMove(currentPrice, iv, days) == QMul(QMul(currentPrice, iv), TimeFactor(days))

\* fault: the 2-sigma move is not doubled
calculateVolatilityRangeSingleMove(currentPrice, iv, dte) ==
  IF ~Truthy(currentPrice) \/ ~Truthy(iv) \/ dte = 0 THEN NoBand
  ELSE VolatilityBand(currentPrice, OneSigmaMove(currentPrice, iv, dte),
                      OneSigmaMove(currentPrice, iv, dte))

calculateVolatilityRange(currentPrice, iv, dte) ==
  IF ~Truthy(currentPrice) \/ ~Truthy(iv) \/ dte = 0 THEN NoBand
  ELSE VolatilityBand(currentPrice, OneSigmaMove(currentPrice, iv, dte),
                      QMul(OneSigmaMove(currentPrice, iv, dte), Num(2)))

\* 0.3989423 * Math.exp(-z*z/2) in units of 1e-4, tabulated for |z| = 0.0, 0.1, ...
PdfTab ==
  << 3989, 3970, 3910, 3814, 3683, 3521, 3332, 3123, 2897, 2661,
     2420, 2179, 1942, 1714, 1497, 1295, 1109, 940, 790, 656,
     540, 440, 355, 283, 224, 175, 136, 104, 79, 60,
     44, 33, 24, 17, 12, 9, 6, 4, 3, 2,
     1, 1, 1, 0 >>

\* |z| in tenths, saturating at the end of the table (where the density is 0)
ZTenths(z) ==
  IF z.d = 0 THEN Len(PdfTab) - 1
  ELSE Min(Len(PdfTab) - 1, QRound(QMul(QAbs(z), Num(10))).n)

\* Abramowitz-Stegun approximation of the upper tail beyond |z| = k / 10,
\* evaluated in fixed point (units of 1e-4)
TailProbability(k) ==
  LET t == (10^8) \div (10^4 + (2316 * k) \div 10)
      d == PdfTab[k + 1]
      p5 == 13303
      p4 == -18213 + (t * p5) \div 10^4
      p3 == 17815 + (t * p4) \div 10^4
      p2 == -3566 + (t * p3) \div 10^4
      p1 == 3194 + (t * p2) \div 10^4
  IN  (d * ((t * p1) \div 10^4)) \div 10^4

normalCDF(z) ==
  IF IsNaN(z) THEN NaN
  ELSE IF z.n > 0 THEN Q(10^4 - TailProbability(ZTenths(z)), 10^4)
  ELSE Q(TailProbability(ZTenths(z)), 10^4)

\* P(lowerBound < price < upperBound) for the z-scores of the two bounds
ProbabilityBetween(zLower, zUpper) ==
  QMax(Num(0), QMin(Num(1), QSub(normalCDF(zUpper), normalCDF(zLower))))

\* (bound - currentPrice) / sigma
ZScore(bound, currentPrice, sigma) == QDiv(QSub(bound, currentPrice), sigma)

\* lowerBound and upperBound may be -Infinity / +Infinity
calculateProbabilityInRange(currentPrice, lowerBound, upperBound, iv, dte) ==
  IF ~Truthy(currentPrice) \/ ~Truthy(lowerBound) \/ ~Truthy(upperBound)
       \/ ~Truthy(iv) \/ dte = 0
  THEN Null
  ELSE ProbabilityBetween(
         ZScore(lowerBound, currentPrice, OneSigmaMove(currentPrice, iv, dte)),
         ZScore(upperBound, currentPrice, OneSigmaMove(currentPrice, iv, dte)))

\* oneSigma band built inline by the API handlers: toFixed(2), which for the
\* positive amounts handled here agrees with Math.round(x * 100) / 100
HandlerBand(currentPrice, oneSigmaMove) ==
  [valid |-> TRUE,
   currentPrice |-> currentPrice,
   oneSigma |-> [upper |-> Round2(QAdd(currentPrice, oneSigmaMove)),
                 lower |-> Round2(QSub(currentPrice, oneSigmaMove)),
                 move |-> Round2(oneSigmaMove)]]

HandlerVolatilityRange(currentPrice, atmIV, daysToExpiry) ==
  HandlerBand(currentPrice, OneSigmaMove(currentPrice, atmIV, daysToExpiry))

\* 0.85 in a positive gamma environment, 1.15 in a negative one, 1.0 otherwise;
\* times 1.1 when the price is within 2% of the zero-gamma level
AdjustmentFactor(currentPrice, gexData) ==
  QMul(IF gexData.gamma_environment = "positive" THEN Q(85, 100)
       ELSE IF gexData.gamma_environment = "negative" THEN Q(115, 100)
       ELSE Num(1),
       IF QLess(QDiv(QAbs(QSub(currentPrice, gexData.zero_gamma)), currentPrice),
                Q(2, 100))
       THEN Q(11, 10) ELSE Num(1))

\* {...volatilityRange, oneSigma: {...oneSigma, upper, lower}, gexAdjustment}
AdjustedBand(volatilityRange, adjustmentFactor) ==
  ("gexAdjustment" :> adjustmentFactor) @@
  [volatilityRange EXCEPT
     !.oneSigma.upper = Round2(QMul(volatilityRange.oneSigma.upper, adjustmentFactor)),
     !.oneSigma.lower = Round2(QMul(volatilityRange.oneSigma.lower, adjustmentFactor))]

adjustVolatilityWithGEX(volatilityRange, gexData) ==
  IF ~volatilityRange.valid \/ ~gexData.present THEN volatilityRange
  ELSE IF ~Truthy(gexData.zero_gamma) THEN volatilityRange
  ELSE AdjustedBand(volatilityRange,
                    AdjustmentFactor(volatilityRange.currentPrice, gexData))

(***************************************************************************)
(* OptionsChainMatcher (api/analyze-v3.js)                                 *)
(***************************************************************************)
\* Raw contracts of the upstream feed.  daysOut is the whole number of days
\* between the day the feed was fetched and the contract's expiration.  A bid
\* or ask the feed leaves out is NaN, the value parseFloat gives for it.
RawContract(type, strike, bid, ask, daysOut) ==
  [type |-> type, strike |-> strike, bid |-> bid, ask |-> ask, daysOut |-> daysOut]

RawUniverse(dte) ==
  {RawContract("put", Num(225), Q(80, 100), Q(90, 100), dte + 1),
   RawContract("put", Num(240), Q(110, 100), Q(120, 100), dte + 1),
   RawContract("put", Num(225), NaN, Q(160, 100), dte - 1),
   RawContract("call", Num(265), Q(95, 100), Q(105, 100), dte + 1),
   RawContract("put", Num(235), Q(110, 100), Q(120, 100), dte + 10)}

\* insert x after every element whose strike is not greater (stable)
RECURSIVE InsertByStrike(_, _)
InsertByStrike(sorted, x) ==
  IF sorted = << >> THEN << x >>
  ELSE IF QLess(x.strike, Head(sorted).strike) THEN << x >> \o sorted
  ELSE << Head(sorted) >> \o InsertByStrike(Tail(sorted), x)

\* Array.prototype.sort((a, b) => a.strike - b.strike)
RECURSIVE SortByStrike(_)
SortByStrike(options) ==
  IF options = << >> THEN << >>
  ELSE InsertByStrike(SortByStrike(SubSeq(options, 1, Len(options) - 1)),
                      options[Len(options)])

\* parseFloat(x) || 0
OrZero(x) == IF Truthy(x) THEN x ELSE Num(0)

\* fault: the mid price is the sum of bid and ask, not their mean
OptionDataMidNotHalved(option) ==
  [type |-> option.type,
   strike |-> option.strike,
   bid |-> OrZero(option.bid),
   ask |-> OrZero(option.ask),
   mid |-> QAdd(OrZero(option.bid), OrZero(option.ask)),
   daysToExp |-> option.daysOut]

OptionData(option) ==
  [type |-> option.type,
   strike |-> option.strike,
   bid |-> OrZero(option.bid),
   ask |-> OrZero(option.ask),
   mid |-> QDiv(QAdd(OrZero(option.bid), OrZero(option.ask)), Num(2)),
   daysToExp |-> option.daysOut]

RECURSIVE SelectOptions(_, _, _)
SelectOptions(data, targetDTE, type) ==
  IF data = << >> THEN << >>
  ELSE LET option == Head(data)
           rest == SelectOptions(Tail(data), targetDTE, type)
       IN  IF Abs(option.daysOut - targetDTE) <= 3
              /\ (option.type = "call") = (type = "call")
           THEN << OptionData(option) >> \o rest
           ELSE rest

parseOptionsChain(data, targetDTE) ==
  [calls |-> SortByStrike(SelectOptions(data, targetDTE, "call")),
   puts |-> SortByStrike(SelectOptions(data, targetDTE, "put"))]

\* the feed as a parse sees it that runs `elapsed` days after the feed was
\* fetched: Math.round((expiration - new Date()) / (1000 * 60 * 60 * 24))
AtDay(data, elapsed) ==
  [i \in 1..Len(data) |-> [data[i] EXCEPT !.daysOut = @ - elapsed]]

\* parseOptionsChain(data, targetDTE) called when the wall clock is `elapsed`
\* days past the fetch of the feed
parseOptionsChainAt(data, targetDTE, elapsed) ==
  parseOptionsChain(AtDay(data, elapsed), targetDTE)

NoOption == [isNull |-> TRUE]

IsOption(o) == "strike" \in DOMAIN o

\* fault: a later contract at the same distance replaces the earlier one
RECURSIVE ReduceClosestLastWins(_, _, _)
ReduceClosestLastWins(closest, options, targetStrike) ==
  IF options = << >> THEN closest
  ELSE LET option == Head(options)
           closestDiff == QAbs(QSub(closest.strike, targetStrike))
           optionDiff == QAbs(QSub(option.strike, targetStrike))
       IN  ReduceClosestLastWins(IF QLeq(optionDiff, closestDiff) THEN option
                                                                 ELSE closest,
                                 Tail(options), targetStrike)

RECURSIVE ReduceClosest(_, _, _)
ReduceClosest(closest, options, targetStrike) ==
  IF options = << >> THEN closest
  ELSE LET option == Head(options)
           closestDiff == QAbs(QSub(closest.strike, targetStrike))
           optionDiff == QAbs(QSub(option.strike, targetStrike))
       IN  ReduceClosest(IF QLess(optionDiff, closestDiff) THEN option ELSE closest,
                         Tail(options), targetStrike)

findOptionByStrike(options, targetStrike) ==
  IF Len(options) = 0 THEN NoOption
  ELSE ReduceClosest(Head(options), Tail(options), targetStrike)

(***************************************************************************)
(* StrategyCatalog, estimated mode (src/lib/enhancedStrategyEngine.js)     *)
(***************************************************************************)
\* Math.round(x / 5) * 5
RoundTo5(x) == QMul(QRound(QDiv(x, Num(5))), Num(5))

\* minimum net premium per recommended group, in dollars
MinCredit == 150

\* a candidate; fields a generator does not set are Null / "undefined"
Candidate(name, type, direction, strikes, contracts, netCredit, netDebit, maxProfit, maxRisk, winRate, roc, strategyType, usingRealPrices) ==
  [name |-> name, type |-> type, direction |-> direction, strikes |-> strikes,
   contracts |-> contracts, netCredit |-> netCredit, netDebit |-> netDebit,
   maxProfit |-> maxProfit, maxRisk |-> maxRisk, winRate |-> winRate,
   roc |-> roc, strategyType |-> strategyType,
   usingRealPrices |-> usingRealPrices, score |-> Null, rank |-> 0,
   medal |-> "none"]

\* Math.round((a / b) * 100)
RocOf(a, b) == QRound(QMul(QDiv(a, b), Num(100)))

\* the estimated premium per contract: atmIV * currentPrice * factor
EstimatedPremium(params, factor) == QMul(QMul(params.atmIV, params.currentPrice), factor)

\* the candidate built once the strikes, premium and contract count are known
IronCondorCandidate(params, putSellStrike, callSellStrike, creditPerContract, contracts) ==
  LET ivr == params.ivRank.ivRank
      netCredit == QRound(QMul(creditPerContract, contracts))
      maxRisk == QSub(QMul(Num(10 * 100), contracts), netCredit)
  IN  Candidate("IronCondor", "iron_condor", "neutral",
                [putBuy |-> QSub(putSellStrike, Num(10)), putSell |-> putSellStrike,
                 callSell |-> callSellStrike, callBuy |-> QAdd(callSellStrike, Num(10))],
                contracts, netCredit, Null, Null, maxRisk,
                Num(68 + (IF ivr > 70 THEN 7 ELSE IF ivr > 50 THEN 4 ELSE 0)),
                RocOf(netCredit, maxRisk), "seller", FALSE)

generateIronCondor(params) ==
  LET creditPerContract == EstimatedPremium(params, Q(25, 1000))
  IN  IronCondorCandidate(params,
                          RoundTo5(params.volatilityRange.oneSigma.lower),
                          RoundTo5(params.volatilityRange.oneSigma.upper),
                          creditPerContract,
                          QCeil(QDiv(Num(MinCredit), creditPerContract)))

VerticalSpreadCandidate(params, isBullish, sellStrike, creditPerContract, contracts) ==
  LET ivr == params.ivRank.ivRank
      spreadWidth == 10
      buyStrike == IF isBullish THEN QSub(sellStrike, Num(spreadWidth))
                                ELSE QAdd(sellStrike, Num(spreadWidth))
      netCredit == QRound(QMul(creditPerContract, contracts))
      maxRisk == QSub(QMul(Num(spreadWidth * 100), contracts), netCredit)
  IN  Candidate(IF isBullish THEN "BullPutCreditSpread" ELSE "BearCallCreditSpread",
                "vertical_spread",
                IF isBullish THEN "bullish" ELSE "bearish",
                [buy |-> buyStrike, sell |-> sellStrike],
                contracts, netCredit, Null, Null, maxRisk,
                Num(72 + (IF ivr > 60 THEN 5 ELSE 0)),
                RocOf(netCredit, maxRisk), "seller", FALSE)

\* trend === 'bullish' || trend === 'neutral'
IsBullish(params) == params.taScore.trend = "bullish" \/ params.taScore.trend = "neutral"

\* the short strike of the vertical spread: 1-sigma lower bound for the put
\* side, 1-sigma upper bound for the call side
VerticalSellStrike(params) ==
  IF IsBullish(params) THEN RoundTo5(params.volatilityRange.oneSigma.lower)
                       ELSE RoundTo5(params.volatilityRange.oneSigma.upper)

\* fault: the spread is sized for a premium of 100 instead of MinCredit
generateVerticalSpreadSizedFor100(params) ==
  LET creditPerContract == EstimatedPremium(params, Q(18, 1000))
  IN  VerticalSpreadCandidate(params, IsBullish(params), VerticalSellStrike(params),
                              creditPerContract,
                              QCeil(QDiv(Num(100), creditPerContract)))

generateVerticalSpread(params) ==
  LET creditPerContract == EstimatedPremium(params, Q(18, 1000))
  IN  VerticalSpreadCandidate(params, IsBullish(params), VerticalSellStrike(params),
                              creditPerContract,
                              QCeil(QDiv(Num(MinCredit), creditPerContract)))

ButterflyCandidate(params, centerStrike, debitPerContract, contracts) ==
  LET ivr == params.ivRank.ivRank
      wingWidth == 10
      netDebit == QRound(QMul(debitPerContract, contracts))
      maxProfit == QSub(QMul(Num(wingWidth * 100), contracts), netDebit)
      maxRisk == netDebit
  IN  Candidate("Butterfly", "butterfly", "neutral",
                [lower |-> QSub(centerStrike, Num(wingWidth)),
                 center |-> centerStrike,
                 upper |-> QAdd(centerStrike, Num(wingWidth))],
                contracts, Null, netDebit, maxProfit, maxRisk,
                Num(55 + (IF ivr < 40 THEN 10 ELSE 0)),
                RocOf(maxProfit, netDebit), "buyer", FALSE)

generateButterfly(params) ==
  LET wingWidth == 10
      debitPerContract == EstimatedPremium(params, Q(12, 1000))
  IN  ButterflyCandidate(params, RoundTo5(params.currentPrice), debitPerContract,
                         QCeil(QDiv(Num(MinCredit),
                                    QSub(Num(wingWidth * 100), debitPerContract))))

CashSecuredPutCandidate(sellStrike, creditPerContract, contracts) ==
  LET netCredit == QRound(QMul(creditPerContract, contracts))
      maxRisk == QSub(QMul(QMul(sellStrike, Num(100)), contracts), netCredit)
  IN  Candidate("CashSecuredPut", "cash_secured_put", "bullish",
                [sell |-> sellStrike],
                contracts, netCredit, Null, Null, maxRisk,
                Num(76), RocOf(netCredit, maxRisk), "seller", FALSE)

generateCashSecuredPut(params) ==
  LET creditPerContract == EstimatedPremium(params, Q(12, 1000))
  IN  CashSecuredPutCandidate(RoundTo5(QMul(params.currentPrice, Q(95, 100))),
                              creditPerContract,
                              QCeil(QDiv(Num(MinCredit), creditPerContract)))

CalendarSpreadCandidate(params, strike, expectedProfit, netDebit, contracts) ==
  LET netDebitTotal == QRound(QMul(netDebit, contracts))
      maxProfit == QRound(QMul(expectedProfit, contracts))
      maxRisk == netDebitTotal
  IN  Candidate("CalendarSpread", "calendar_spread", "neutral",
                [strike |-> strike, shortDTE |-> params.dte, longDTE |-> params.dte + 7],
                contracts, Null, netDebitTotal, maxProfit, maxRisk,
                Num(62), RocOf(maxProfit, netDebitTotal), "buyer", FALSE)

generateCalendarSpread(params) ==
  LET shortCredit == EstimatedPremium(params, Q(15, 1000))
      longDebit == EstimatedPremium(params, Q(22, 1000))
  IN  CalendarSpreadCandidate(params, RoundTo5(params.currentPrice),
                              QMul(shortCredit, Q(7, 10)),
                              QSub(longDebit, shortCredit),
                              QCeil(QDiv(Num(MinCredit), QMul(shortCredit, Q(7, 10)))))

DiagonalSpreadCandidate(params, isBullish, expectedProfit, netDebit, contracts) ==
  LET shortStrike == IF isBullish
                     THEN RoundTo5(QMul(params.currentPrice, Q(103, 100)))
                     ELSE RoundTo5(QMul(params.currentPrice, Q(97, 100)))
      longStrike == IF isBullish
                    THEN RoundTo5(QMul(params.currentPrice, Q(105, 100)))
                    ELSE RoundTo5(QMul(params.currentPrice, Q(95, 100)))
      netDebitTotal == QRound(QMul(netDebit, contracts))
      maxProfit == QRound(QMul(expectedProfit, contracts))
      maxRisk == netDebitTotal
  IN  Candidate(IF isBullish THEN "BullDiagonalSpread" ELSE "BearDiagonalSpread",
                "diagonal_spread",
                IF isBullish THEN "bullish" ELSE "bearish",
                [shortStrike |-> shortStrike, longStrike |-> longStrike,
                 shortDTE |-> params.dte, longDTE |-> params.dte + 7],
                contracts, Null, netDebitTotal, maxProfit, maxRisk,
                Num(58), RocOf(maxProfit, netDebitTotal), "buyer", FALSE)

generateDiagonalSpread(params) ==
  LET shortCredit == EstimatedPremium(params, Q(14, 1000))
      longDebit == EstimatedPremium(params, Q(20, 1000))
  IN  DiagonalSpreadCandidate(params, params.taScore.trend = "bullish",
                              QMul(shortCredit, Q(6, 10)),
                              QSub(longDebit, shortCredit),
                              QCeil(QDiv(Num(MinCredit), QMul(shortCredit, Q(6, 10)))))

\* fault: the iron-condor gate excludes the threshold itself
EnhancedCandidatesStrictGate(params) ==
  (IF params.ivRank.ivRank > 45 THEN << generateIronCondor(params) >> ELSE << >>)
  \o << generateVerticalSpread(params) >>
  \o (IF params.ivRank.ivRank <= 60 THEN << generateButterfly(params) >> ELSE << >>)
  \o (IF params.taScore.trend # "bearish"
      THEN << generateCashSecuredPut(params) >> ELSE << >>)
  \o (IF params.dte >= 7 THEN << generateCalendarSpread(params) >> ELSE << >>)
  \o (IF params.dte >= 7 /\ params.taScore.trend # "neutral"
      THEN << generateDiagonalSpread(params) >> ELSE << >>)

\* fault: the cash-secured put is emitted whatever the trend
EnhancedCandidatesUngatedPut(params) ==
  (IF params.ivRank.ivRank >= 45 THEN << generateIronCondor(params) >> ELSE << >>)
  \o << generateVerticalSpread(params) >>
  \o (IF params.ivRank.ivRank <= 60 THEN << generateButterfly(params) >> ELSE << >>)
  \o << generateCashSecuredPut(params) >>
  \o (IF params.dte >= 7 THEN << generateCalendarSpread(params) >> ELSE << >>)
  \o (IF params.dte >= 7 /\ params.taScore.trend # "neutral"
      THEN << generateDiagonalSpread(params) >> ELSE << >>)

\* the candidate list of generateAllStrategies before scoring and ranking
EnhancedCandidates(params) ==
  (IF params.ivRank.ivRank >= 45 THEN << generateIronCondor(params) >> ELSE << >>)
  \o << generateVerticalSpread(params) >>
  \o (IF params.ivRank.ivRank <= 60 THEN << generateButterfly(params) >> ELSE << >>)
  \o (IF params.taScore.trend # "bearish"
      THEN << generateCashSecuredPut(params) >> ELSE << >>)
  \o (IF params.dte >= 7 THEN << generateCalendarSpread(params) >> ELSE << >>)
  \o (IF params.dte >= 7 /\ params.taScore.trend # "neutral"
      THEN << generateDiagonalSpread(params) >> ELSE << >>)

(***************************************************************************)
(* ScoringEngine and Ranker (src/lib/enhancedStrategyEngine.js)            *)
(***************************************************************************)
\* Math.round(Math.max(0, Math.min(100, score)))
ClampRound(score) == QRound(QMax(Num(0), QMin(Num(100), score)))

\* the IV-rank fit added by calculateScore
EnhancedIvrTerm(strategy, ivRank) ==
  IF strategy.strategyType = "seller"
  THEN (IF ivRank.ivRank >= 70 THEN 15 ELSE IF ivRank.ivRank >= 50 THEN 12
        ELSE IF ivRank.ivRank >= 30 THEN 8 ELSE 4)
  ELSE (IF ivRank.ivRank < 30 THEN 15 ELSE IF ivRank.ivRank < 50 THEN 10 ELSE 5)

\* the direction fit added by calculateScore
EnhancedDirectionTerm(strategy, taScore) ==
  IF strategy.direction = "neutral" THEN 10
  ELSE IF strategy.direction = taScore.trend THEN 10
  ELSE IF taScore.trend # "neutral" THEN 3
  ELSE 7

\* the gamma fit added by calculateScore
EnhancedGexTerm(strategy, gexData) ==
  IF gexData.available
  THEN (IF strategy.type = "iron_condor"
           /\ gexData.gamma_environment = "positive" THEN 10
        ELSE IF strategy.strategyType = "buyer"
           /\ gexData.gamma_environment = "negative" THEN 10
        ELSE 6)
  ELSE 5

\* the score calculateScore accumulates before Math.max / Math.min / Math.round
EnhancedScoreSum(strategy, ivRank, taScore, gexData) ==
  LET winRateTerm == QMul(QDiv(strategy.winRate, Num(100)), Num(25))
      rocTerm == QMin(QMul(QDiv(strategy.roc, Num(50)), Num(20)), Num(20))
      taTerm == QMul(Q(taScore.score, 100), Num(15))
      ivrTerm == EnhancedIvrTerm(strategy, ivRank)
      directionTerm == EnhancedDirectionTerm(strategy, taScore)
      gexTerm == EnhancedGexTerm(strategy, gexData)
      liquidityTerm == 5
      score == QAdd(QAdd(QAdd(winRateTerm, rocTerm), taTerm),
                    Num(ivrTerm + directionTerm + gexTerm + liquidityTerm))
  IN  score

calculateScore(strategy, ivRank, taScore, gexData) ==
  ClampRound(EnhancedScoreSum(strategy, ivRank, taScore, gexData))

\* sign of the comparator (a, b) => b.score - a.score; a NaN result counts as 0
CompareScore(a, b) ==
  LET v == QSub(b.score, a.score) IN IF IsNaN(v) THEN 0 ELSE Sign(v.n)

\* fault: x is inserted before the elements it ties with
RECURSIVE InsertByScoreBeforeTies(_, _)
InsertByScoreBeforeTies(sorted, x) ==
  IF sorted = << >> THEN << x >>
  ELSE IF CompareScore(Head(sorted), x) >= 0 THEN << x >> \o sorted
  ELSE << Head(sorted) >> \o InsertByScoreBeforeTies(Tail(sorted), x)

\* insert x after every element the comparator does not place behind it (stable)
RECURSIVE InsertByScore(_, _)
InsertByScore(sorted, x) ==
  IF sorted = << >> THEN << x >>
  ELSE IF CompareScore(Head(sorted), x) > 0 THEN << x >> \o sorted
  ELSE << Head(sorted) >> \o InsertByScore(Tail(sorted), x)

RECURSIVE StableSortByScore(_)
StableSortByScore(list) ==
  IF list = << >> THEN << >>
  ELSE InsertByScore(StableSortByScore(SubSeq(list, 1, Len(list) - 1)),
                     list[Len(list)])

\* the comparator is a consistent comparator in the sense of ECMAScript
ConsistentComparator(list) ==
  \A i, j, k \in 1..Len(list) :
     /\ (CompareScore(list[i], list[j]) = 0 /\ CompareScore(list[j], list[k]) = 0)
          => CompareScore(list[i], list[k]) = 0
     /\ (CompareScore(list[i], list[j]) < 0 /\ CompareScore(list[j], list[k]) < 0)
          => CompareScore(list[i], list[k]) < 0

\* Array.prototype.sort((a, b) => b.score - a.score): stable for a consistent
\* comparator, otherwise the order is implementation-defined
SortByScoreOutcomes(list) ==
  IF ConsistentComparator(list) THEN {StableSortByScore(list)}
  ELSE {[i \in 1..Len(list) |-> list[p[i]]] : p \in Permutations(1..Len(list))}

Medals == << "gold", "silver", "bronze" >>

\* s.rank = i + 1; s.medal = medals[i] || generic marker
AssignRanks(list) ==
  [i \in 1..Len(list) |->
     [list[i] EXCEPT !.rank = i,
                     !.medal = IF i <= Len(Medals) THEN Medals[i] ELSE "generic"]]

\* strategies.slice(0, 3)
Top3(list) == SubSeq(list, 1, Min(3, Len(list)))

\* strategies.forEach(s => { s.score = calculateScore(s, ivRank, taScore, gexData) })
EnhancedScored(strategies, params) ==
  [i \in 1..Len(strategies) |->
     [strategies[i] EXCEPT !.score =
        calculateScore(strategies[i], params.ivRank, params.taScore, params.gexData)]]

(***************************************************************************)
(* StrategyCatalog, real-price mode (api/analyze-v3.js)                    *)
(***************************************************************************)
\* Math.max(1, Math.ceil(150 / creditPerContract))
RealContracts(creditPerContract) ==
  QMax(Num(1), QCeil(QDiv(Num(MinCredit), creditPerContract)))

\* the iron condor priced from the four quotes found in the chain
RealIronCondorCandidate(params, width, putSellOpt, putBuyOpt, callSellOpt, callBuyOpt, creditPerContract, contracts) ==
  LET ivr == params.ivRank.ivRank
      netCredit == QRound(QMul(creditPerContract, contracts))
      maxRisk == QRound(QSub(QMul(QMul(width, Num(100)), contracts), netCredit))
  IN  Candidate("IronCondor", "iron_condor", "undefined",
                [putBuy |-> putBuyOpt.strike, putSell |-> putSellOpt.strike,
                 callSell |-> callSellOpt.strike, callBuy |-> callBuyOpt.strike],
                contracts, netCredit, Null, Null, maxRisk,
                Num(68 + (IF ivr > 70 THEN 7 ELSE 4)),
                RocOf(netCredit, maxRisk), "undefined", TRUE)

\* the body of the iron-condor block once the four lookups are done
RealIronCondorFrom(params, width, putSellOpt, putBuyOpt, callSellOpt, callBuyOpt) ==
  IF IsOption(putSellOpt) /\ IsOption(putBuyOpt)
     /\ IsOption(callSellOpt) /\ IsOption(callBuyOpt)
  THEN LET creditPerContract ==
             QMul(QSub(QAdd(QSub(putSellOpt.mid, putBuyOpt.mid), callSellOpt.mid),
                       callBuyOpt.mid), Num(100))
       IN  << RealIronCondorCandidate(params, width, putSellOpt, putBuyOpt,
                                      callSellOpt, callBuyOpt, creditPerContract,
                                      RealContracts(creditPerContract)) >>
  ELSE << >>

\* the four target strikes of the iron condor
RealIronCondorAt(params, putSellStrike, putBuyStrike, callSellStrike, callBuyStrike) ==
  RealIronCondorFrom(params, QSub(putSellStrike, putBuyStrike),
                     findOptionByStrike(params.optionsChain.puts, putSellStrike),
                     findOptionByStrike(params.optionsChain.puts, putBuyStrike),
                     findOptionByStrike(params.optionsChain.calls, callSellStrike),
                     findOptionByStrike(params.optionsChain.calls, callBuyStrike))

RealIronCondor(params) ==
  RealIronCondorAt(params,
                   RoundTo5(params.volatilityRange.oneSigma.lower),
                   QSub(RoundTo5(params.volatilityRange.oneSigma.lower), Num(10)),
                   RoundTo5(params.volatilityRange.oneSigma.upper),
                   QAdd(RoundTo5(params.volatilityRange.oneSigma.upper), Num(10)))

RealVerticalSpreadCandidate(params, width, sellOpt, buyOpt, creditPerContract, contracts) ==
  LET ivr == params.ivRank.ivRank
      netCredit == QRound(QMul(creditPerContract, contracts))
      maxRisk == QRound(QSub(QMul(QMul(width, Num(100)), contracts), netCredit))
  IN  Candidate(IF IsBullish(params) THEN "BullPutCreditSpread"
                                     ELSE "BearCallCreditSpread",
                "vertical_spread", "undefined",
                [sell |-> sellOpt.strike, buy |-> buyOpt.strike],
                contracts, netCredit, Null, Null, maxRisk,
                Num(72 + (IF ivr > 60 THEN 5 ELSE 0)),
                RocOf(netCredit, maxRisk), "undefined", TRUE)

\* the body of the vertical-spread block once the two lookups are done
RealVerticalSpreadFrom(params, width, sellOpt, buyOpt) ==
  IF IsOption(sellOpt) /\ IsOption(buyOpt)
  THEN LET creditPerContract == QMul(QSub(sellOpt.mid, buyOpt.mid), Num(100))
       IN  << RealVerticalSpreadCandidate(params, width, sellOpt, buyOpt,
                                          creditPerContract,
                                          RealContracts(creditPerContract)) >>
  ELSE << >>

\* the two target strikes of the vertical spread, looked up on one side
RealVerticalSpreadAt(params, side, sellStrike, buyStrike) ==
  RealVerticalSpreadFrom(params, QAbs(QSub(sellStrike, buyStrike)),
                         findOptionByStrike(side, sellStrike),
                         findOptionByStrike(side, buyStrike))

RealVerticalSpread(params) ==
  IF IsBullish(params)
  THEN RealVerticalSpreadAt(params, params.optionsChain.puts,
                            VerticalSellStrike(params),
                            QSub(VerticalSellStrike(params), Num(10)))
  ELSE RealVerticalSpreadAt(params, params.optionsChain.calls,
                            VerticalSellStrike(params),
                            QAdd(VerticalSellStrike(params), Num(10)))

RealCashSecuredPutCandidate(sellOpt, creditPerContract, contracts) ==
  LET netCredit == QRound(QMul(creditPerContract, contracts))
      maxRisk == QRound(QSub(QMul(QMul(sellOpt.strike, Num(100)), contracts),
                             netCredit))
  IN  Candidate("CashSecuredPut", "cash_secured_put", "undefined",
                [sell |-> sellOpt.strike],
                contracts, netCredit, Null, Null, maxRisk,
                Num(76), RocOf(netCredit, maxRisk), "undefined", TRUE)

\* the body of the cash-secured-put block once the lookup is done
RealCashSecuredPutFrom(sellOpt) ==
  IF IsOption(sellOpt)
  THEN << RealCashSecuredPutCandidate(sellOpt, QMul(sellOpt.mid, Num(100)),
                                      RealContracts(QMul(sellOpt.mid, Num(100)))) >>
  ELSE << >>

RealCashSecuredPut(params) ==
  RealCashSecuredPutFrom(
    findOptionByStrike(params.optionsChain.puts,
                       RoundTo5(QMul(params.currentPrice, Q(95, 100)))))

FallbackCandidate(putSell, callSell, credit, contracts) ==
  LET netCredit == QRound(QMul(credit, contracts))
      maxRisk == QSub(QMul(Num(10 * 100), contracts), netCredit)
  IN  Candidate("IronCondorEstimated", "iron_condor", "undefined",
                [putBuy |-> QSub(putSell, Num(10)), putSell |-> putSell,
                 callSell |-> callSell, callBuy |-> QAdd(callSell, Num(10))],
                contracts, netCredit, Null, Null, maxRisk,
                Num(68), RocOf(netCredit, maxRisk), "undefined", FALSE)

generateFallbackStrategy(params) ==
  LET credit == EstimatedPremium(params, Q(25, 1000))
  IN  FallbackCandidate(RoundTo5(params.volatilityRange.oneSigma.lower),
                        RoundTo5(params.volatilityRange.oneSigma.upper),
                        credit, QCeil(QDiv(Num(MinCredit), credit)))

\* fault: the fallback is added whenever fewer than two strategies were produced
OrFallbackBelowTwo(strategies, params) ==
  IF Len(strategies) < 2 THEN strategies \o << generateFallbackStrategy(params) >>
  ELSE strategies

\* if (strategies.length === 0) strategies.push(generateFallbackStrategy(params))
OrFallback(strategies, params) ==
  IF Len(strategies) = 0 THEN << generateFallbackStrategy(params) >> ELSE strategies

\* the candidate list of generateStrategiesWithRealPrices before scoring
RealCandidates(params) ==
  LET hasOptions == Len(params.optionsChain.calls) > 0
                    /\ Len(params.optionsChain.puts) > 0
  IN  OrFallback(
        (IF params.ivRank.ivRank >= 45 /\ hasOptions
         THEN RealIronCondor(params) ELSE << >>)
        \o (IF hasOptions THEN RealVerticalSpread(params) ELSE << >>)
        \o (IF params.taScore.trend # "bearish" /\ hasOptions
            THEN RealCashSecuredPut(params) ELSE << >>),
        params)

\* the IV-rank fit added by calcScore
RealIvrTerm(s, ivr) ==
  IF s.type = "iron_condor" \/ s.type = "vertical_spread"
     \/ s.type = "cash_secured_put"
  THEN (IF ivr.ivRank >= 70 THEN 15 ELSE IF ivr.ivRank >= 50 THEN 12 ELSE 8)
  ELSE (IF ivr.ivRank < 30 THEN 15 ELSE IF ivr.ivRank < 50 THEN 10 ELSE 5)

\* score += 10: the direction fit added by calcScore, whatever the trend
RealDirectionTerm(s, ta) == 10

\* the gamma fit added by calcScore
RealGexTerm(s, gex) ==
  IF gex.available /\ s.type = "iron_condor"
     /\ gex.gamma_environment = "positive" THEN 10 ELSE 6

\* the score calcScore accumulates before Math.max / Math.min / Math.round
RealScoreSum(s, ivr, ta, gex) ==
  LET ivrTerm == RealIvrTerm(s, ivr)
      directionTerm == RealDirectionTerm(s, ta)
      gexTerm == RealGexTerm(s, gex)
      priceTerm == IF s.usingRealPrices THEN 5 ELSE 3
      score == QAdd(QAdd(QAdd(QMul(QDiv(s.winRate, Num(100)), Num(25)),
                              QMin(QMul(QDiv(s.roc, Num(50)), Num(20)), Num(20))),
                         QMul(Q(ta.score, 100), Num(15))),
                    Num(ivrTerm + directionTerm + gexTerm + priceTerm))
  IN  score

calcScore(s, ivr, ta, gex) == ClampRound(RealScoreSum(s, ivr, ta, gex))

\* strategies.forEach(s => { s.score = calcScore(s, ivRank, taScore, gexData) })
RealScored(strategies, params) ==
  [i \in 1..Len(strategies) |->
     [strategies[i] EXCEPT !.score =
        calcScore(strategies[i], params.ivRank, params.taScore, params.gexData)]]

(***************************************************************************)
(* Baseline StrategyCatalog (strategyEngine.js) and scoringSystem.js       *)
(***************************************************************************)
roundToStrike(price) ==
  LET interval == IF QLess(price, Num(50)) THEN Num(1)
                  ELSE IF QLess(price, Num(100)) THEN Q(25, 10)
                  ELSE IF QLess(price, Num(200)) THEN Num(5)
                  ELSE Num(10)
  IN  QMul(QRound(QDiv(price, interval)), interval)

getWingWidth(currentPrice) ==
  IF QLess(currentPrice, Num(50)) THEN Num(5)
  ELSE IF QLess(currentPrice, Num(100)) THEN Num(10)
  ELSE IF QLess(currentPrice, Num(300)) THEN Num(15)
  ELSE Num(20)

estimateCredit(currentPrice, iv, dte_, strategyType) ==
  LET factor == IF strategyType = "iron_condor" THEN Q(15, 100)
                ELSE IF strategyType = "credit_spread" THEN Q(10, 100)
                ELSE IF strategyType = "cash_secured_put" THEN Q(12, 100)
                ELSE Q(10, 100)
  IN  QMax(Num(50), QRound(QMul(QMul(QMul(iv, currentPrice), TimeFactor(dte_)), factor)))

\* Math.round(winProbability * 100); a null probability converts to 0
WinRateOf(winProbability) == QRound(QMul(ToNumber(winProbability), Num(100)))

\* the candidate built once the strikes, premium and contract count are known;
\* legWidth is the strike distance the risk is computed from
BaselineCandidate(name, type, direction, strikes, legWidth, creditPerContract, contracts, winProbability) ==
  LET netCredit == QMul(creditPerContract, contracts)
      maxRisk == QMul(QSub(QMul(legWidth, Num(100)), creditPerContract), contracts)
  IN  Candidate(name, type, direction, strikes,
                contracts, QRound(netCredit), Null, Null, QRound(maxRisk),
                WinRateOf(winProbability), RocOf(netCredit, maxRisk),
                "undefined", FALSE)

\* contracts = Math.ceil(minCredit / creditPerContract)
BaselineSized(name, type, direction, strikes, legWidth, creditPerContract, winProbability) ==
  BaselineCandidate(name, type, direction, strikes, legWidth, creditPerContract,
                    QCeil(QDiv(Num(MinCredit), creditPerContract)), winProbability)

IronCondorV1At(marketData, putSellStrike, putBuyStrike, callSellStrike, callBuyStrike) ==
  BaselineSized("IronCondor", "iron_condor", "undefined",
                [putBuy |-> putBuyStrike, putSell |-> putSellStrike,
                 callSell |-> callSellStrike, callBuy |-> callBuyStrike],
                QSub(callBuyStrike, callSellStrike),
                estimateCredit(marketData.currentPrice, marketData.iv, marketData.dte,
                               "iron_condor"),
                calculateProbabilityInRange(marketData.currentPrice, putSellStrike,
                                            callSellStrike, marketData.iv,
                                            marketData.dte))

\* the long strikes one wing beyond the short strikes
IronCondorV1Wings(marketData, putSellStrike, callSellStrike) ==
  IronCondorV1At(marketData,
                 putSellStrike,
                 roundToStrike(QSub(putSellStrike, getWingWidth(marketData.currentPrice))),
                 callSellStrike,
                 roundToStrike(QAdd(callSellStrike, getWingWidth(marketData.currentPrice))))

generateIronCondorV1(marketData, volRange) ==
  IronCondorV1Wings(marketData,
                    roundToStrike(QMul(volRange.oneSigma.lower, Q(105, 100))),
                    roundToStrike(QMul(volRange.oneSigma.upper, Q(95, 100))))

CreditSpreadAt(marketData, direction, sellStrike, buyStrike) ==
  BaselineSized(IF direction = "put" THEN "BullPutCreditSpread"
                                     ELSE "BearCallCreditSpread",
                "credit_spread", direction,
                [sell |-> sellStrike, buy |-> buyStrike],
                QAbs(QSub(buyStrike, sellStrike)),
                estimateCredit(marketData.currentPrice, marketData.iv, marketData.dte,
                               "credit_spread"),
                IF direction = "put"
                THEN calculateProbabilityInRange(marketData.currentPrice, sellStrike,
                                                 PInf, marketData.iv, marketData.dte)
                ELSE calculateProbabilityInRange(marketData.currentPrice, NInf,
                                                 sellStrike, marketData.iv,
                                                 marketData.dte))

\* the long strike one wing beyond the short strike
CreditSpreadWing(marketData, direction, sellStrike) ==
  CreditSpreadAt(marketData, direction, sellStrike,
                 IF direction = "put"
                 THEN roundToStrike(QSub(sellStrike,
                                         getWingWidth(marketData.currentPrice)))
                 ELSE roundToStrike(QAdd(sellStrike,
                                         getWingWidth(marketData.currentPrice))))

generateCreditSpread(marketData, volRange) ==
  IF marketData.taScore.trend = "bullish"
  THEN CreditSpreadWing(marketData, "put",
                        roundToStrike(QMul(volRange.oneSigma.lower, Q(105, 100))))
  ELSE CreditSpreadWing(marketData, "call",
                        roundToStrike(QMul(volRange.oneSigma.upper, Q(95, 100))))

CashSecuredPutV1At(marketData, sellStrike) ==
  BaselineSized("CashSecuredPut", "cash_secured_put", "undefined",
                [sell |-> sellStrike],
                sellStrike,
                estimateCredit(marketData.currentPrice, marketData.iv, marketData.dte,
                               "cash_secured_put"),
                calculateProbabilityInRange(marketData.currentPrice, sellStrike, PInf,
                                            marketData.iv, marketData.dte))

generateCashSecuredPutV1(marketData, volRange) ==
  CashSecuredPutV1At(marketData,
                     roundToStrike(QMul(volRange.oneSigma.lower, Q(11, 10))))

\* the generators applied to the band
StrategiesFor(marketData, volRange) ==
  (IF marketData.ivRank.ivRank >= 40
   THEN << generateIronCondorV1(marketData, volRange) >> ELSE << >>)
  \o << generateCreditSpread(marketData, volRange) >>
  \o (IF marketData.taScore.trend # "bearish"
      THEN << generateCashSecuredPutV1(marketData, volRange) >> ELSE << >>)

\* calculateVolatilityRange returned null: generateCreditSpread, which always
\* runs, reads volRange.oneSigma and the call ends in a TypeError
Throws(marketData) ==
  ~calculateVolatilityRange(marketData.currentPrice, marketData.iv, marketData.dte).valid

generateStrategies(marketData) ==
  StrategiesFor(marketData,
                calculateVolatilityRange(marketData.currentPrice, marketData.iv,
                                         marketData.dte))

IsSellerType(strategy) ==
  strategy.type = "iron_condor" \/ strategy.type = "credit_spread"
    \/ strategy.type = "cash_secured_put"

calculateIVRScore(strategy, ivRank) ==
  LET ivr == ivRank.ivRank
  IN  IF IsSellerType(strategy)
      THEN (IF ivr >= 75 THEN 15 ELSE IF ivr >= 50 THEN 12
            ELSE IF ivr >= 25 THEN 8 ELSE 4)
      ELSE (IF ivr < 25 THEN 15 ELSE IF ivr < 50 THEN 10 ELSE 5)

\* gexData always carries a gamma_environment here, so the no-data branch
\* (!gexData || !gexData.gamma_environment) is taken only for "undefined"
calculateGEXScore(strategy, gexData) ==
  IF gexData.gamma_environment = "undefined" THEN 5
  ELSE IF IsSellerType(strategy)
       THEN (IF gexData.gamma_environment = "positive" THEN 10 ELSE 6)
       ELSE (IF gexData.gamma_environment = "negative" THEN 10 ELSE 6)

\* the score calculateStrategyScore accumulates before Math.max / Math.min
BaselineScoreSum(strategy, context) ==
  LET winRateScore == QMul(QDiv(strategy.winRate, Num(100)), Num(25))
      rocScore == QMin(QMul(QDiv(strategy.roc, Num(50)), Num(20)), Num(20))
      taScore == QMul(Q(context.taScore.score, 100), Num(15))
      ivrScore == calculateIVRScore(strategy, context.ivRank)
      gexScore == calculateGEXScore(strategy, context.gexData)
      liquidityScore == 10
      greeksScore == 5
      penalty == IF context.earnings.hasEarningsNear THEN 10 ELSE 0
      score == QAdd(QAdd(QAdd(winRateScore, rocScore), taScore),
                    Num(ivrScore + gexScore + liquidityScore + greeksScore - penalty))
  IN  score

calculateStrategyScore(strategy, context) ==
  QMax(Num(0), QMin(Num(100), BaselineScoreSum(strategy, context)))

\* strategies.map(strategy => ({...strategy, score: Math.round(score)}))
BaselineScored(strategies, marketData) ==
  [i \in 1..Len(strategies) |->
     [strategies[i] EXCEPT !.score =
        QRound(calculateStrategyScore(strategies[i], marketData))]]

(***************************************************************************)
(* fetchWithRetry                                                          *)
(***************************************************************************)
\* retries = 3
DefaultRetries == 3

\* the retry counts a caller passes; the handlers rely on the default
RetryCounts == 1..DefaultRetries

\* What one attempt meets: an ok response whose body parses, an ok response
\* whose body does not parse (response.json() rejects), HTTP 429, another
\* HTTP status, or a rejected fetch.
ResponseKinds == {"ok", "badBody", "rateLimited", "httpError", "networkError"}

NoCall == [retries |-> 0, i |-> 0, attempts |-> 0, outcome |-> "idle"]

\* fetchWithRetry(url, retries) up to its first await fetch(url)
StartFetch(retries) ==
  [retries |-> retries, i |-> 0, attempts |-> 0,
   outcome |-> IF 0 < retries THEN "pending" ELSE "undefined"]

\* One pass of the loop body on the response `kind`.  A 429 sleeps
\* 2000 * (i + 1) ms and continues; every other failure is caught: the last
\* pass rethrows, an earlier one sleeps 1000 * (i + 1) ms.  When the loop
\* condition fails the function body ends without a return statement.  The
\* sleeps delay the next pass and change nothing else.
FetchStep(f, kind) ==
  IF kind = "ok"
  THEN [f EXCEPT !.attempts = @ + 1, !.outcome = "json"]
  ELSE IF kind = "rateLimited"
  THEN [f EXCEPT !.attempts = @ + 1, !.i = @ + 1,
                 !.outcome = IF f.i + 1 < f.retries THEN "pending" ELSE "undefined"]
  ELSE IF f.i = f.retries - 1
  THEN [f EXCEPT !.attempts = @ + 1, !.outcome = "rejected"]
  ELSE [f EXCEPT !.attempts = @ + 1, !.i = @ + 1]

(***************************************************************************)
(* The in-memory cache                                                     *)
(***************************************************************************)
\* setCache(key, data, ttl = 300)
DefaultTtl == 300

\* the keys `${upperSymbol}-${dte}` of two requests
CacheKeys == {"TSLA-7", "SPY-14"}

\* cached payloads of direct calls
CacheData == {"analysisA", "analysisB"}

\* the ttl argument of a setCache call: left out, or given in seconds
TtlArguments ==
  {[omitted |-> TRUE]} \cup {[omitted |-> FALSE, ttl |-> s] : s \in {0, 150}}

\* ttl = 300 in the parameter list
TtlOrDefault(arg) == IF arg.omitted THEN DefaultTtl ELSE arg.ttl

\* the clock advances by half the default ttl, so that an instant exactly at
\* an expiry and instants on both sides of it are all reached
TickMs == (DefaultTtl * 1000) \div 2

\* new Map()
EmptyCache == [k \in {} |-> [data |-> "", expiry |-> 0]]

\* return null
Miss == [hit |-> FALSE]

\* return item.data
Hit(data) == [hit |-> TRUE, data |-> data]

\* cache.delete(key)
MapDelete(c, key) == [k \in DOMAIN c \ {key} |-> c[k]]

\* getCache(key) at Date.now() = t: the value returned and the Map afterwards
getCacheExpiringAtDeadline(c, key, t) ==
  IF key \notin DOMAIN c THEN [returned |-> Miss, cache |-> c]
  ELSE IF t >= c[key].expiry THEN [returned |-> Miss, cache |-> MapDelete(c, key)]
  ELSE [returned |-> Hit(c[key].data), cache |-> c]

\* getCache(key) at Date.now() = t: the value returned and the Map afterwards
getCache(c, key, t) ==
  IF key \notin DOMAIN c THEN [returned |-> Miss, cache |-> c]
  ELSE IF t > c[key].expiry THEN [returned |-> Miss, cache |-> MapDelete(c, key)]
  ELSE [returned |-> Hit(c[key].data), cache |-> c]

\* setCache(key, data, ttl) at Date.now() = t
setCache(c, key, data, ttl, t) ==
  [k \in DOMAIN c \cup {key} |->
     IF k = key THEN [data |-> data, expiry |-> t + ttl * 1000] ELSE c[k]]

\* clearCache(key); clearCache() clears the whole Map
clearCache(c, key, all) == IF all THEN EmptyCache ELSE MapDelete(c, key)

\* cleanExpiredCache() at Date.now() = t
cleanExpiredCache(c, t) ==
  [k \in {j \in DOMAIN c : ~(t > c[j].expiry)} |-> c[k]]

(***************************************************************************)
(* The caching analyze handler                                             *)
(***************************************************************************)
\* setCache(cacheKey, result, 300)
HandlerTtl == 300

\* the handler serves its requests one after another
Slots == {1}

NoBody == [none |-> TRUE]

\* a slot no request has used
NoInvocation ==
  [pc |-> "idle", req |-> [symbol |-> "", dte |-> 0, nocache |-> FALSE],
   looked |-> FALSE, at |-> 0, before |-> EmptyCache, fetched |-> FALSE,
   fetch |-> NoCall, hasOptions |-> FALSE, status |-> 0, body |-> NoBody]

\* a request as the handler receives it at Date.now() = t, with the Map as it
\* is then and whether the handler calls getCache
Received(req, c, t, looked) ==
  [NoInvocation EXCEPT !.req = req, !.looked = looked, !.at = t, !.before = c]

(***************************************************************************)
(* State                                                                   *)
(***************************************************************************)
VARIABLES
  dte,              \* days to expiration asked for by the request
  rawChain,         \* raw contracts received from the option-chain feed
  optionsChain,     \* parsed chain {calls, puts}
  market,           \* the market inputs handed to the pipeline that ran
  volatilityRange,  \* the band the pipeline used
  candidates,       \* candidate list before sorting and truncation
  ranked,           \* the list the pipeline returns
  pipeline,         \* which pipeline ran
  phase,            \* position of the request
  result,           \* value returned by a library function called on its own
  today,            \* wall clock of the latest parse, in days since the feed
  firstRun          \* what the first of two runs over the same inputs returned

\* the state of the repeated run
rerun == << today, firstRun >>

VARIABLES
  fetchCall,        \* the fetchWithRetry call in progress: loop index and outcome
  responses         \* what the upstream answered to its attempts, in order

VARIABLES
  now,              \* Date.now(), in ms since the module was loaded
  cache,            \* the Map of the cache module
  written,          \* per key, the latest setCache not followed by a clear
  lastGet,          \* the latest getCache call and what it returned
  invocations,      \* the handler invocations in flight or answered, by slot
  started           \* how many requests the handler has received

\* the state of the data-fetching layer
service == << fetchCall, responses, now, cache, written, lastGet, invocations,
              started >>

\* the state of the strategy pipeline
pipelineVars == << dte, rawChain, optionsChain, market, volatilityRange,
                   candidates, ranked, pipeline, phase, result >>

vars == << dte, rawChain, optionsChain, market, volatilityRange, candidates,
           ranked, pipeline, phase, result, rerun, service >>

\* no setCache of the key since the module was loaded or the key was cleared
NoWrite == [none |-> TRUE]

\* getCache has not been called
NoGet == [none |-> TRUE]

\* the pipeline has not been run a second time
NoRun == [none |-> TRUE]

\* no library function has been called on its own
NoResult == [none |-> TRUE]

NoMarket == [set |-> FALSE]

EmptyChain == [calls |-> << >>, puts |-> << >>]

Init ==
  /\ dte \in Dtes
  /\ rawChain = << >>
  /\ optionsChain = EmptyChain
  /\ market = NoMarket
  /\ volatilityRange = NoBand
  /\ candidates = << >>
  /\ ranked = << >>
  /\ pipeline = "none"
  /\ phase = "input"
  /\ result = NoResult
  /\ today = 0
  /\ firstRun = NoRun
  /\ fetchCall = NoCall
  /\ responses = << >>
  /\ now = 0
  /\ cache = EmptyCache
  /\ written = [k \in CacheKeys |-> NoWrite]
  /\ lastGet = NoGet
  /\ invocations = [s \in Slots |-> NoInvocation]
  /\ started = 0

\* market inputs of the enhanced and real-price pipelines; earnings is part of
\* the snapshot, but neither generateAllStrategies nor the handler's call of
\* generateStrategiesWithRealPrices hands it to the scoring function
EngineParams(currentPrice, atmIV, ivr, trend, ta, gex, chain, hasEarningsNear) ==
  [set |-> TRUE,
   currentPrice |-> currentPrice,
   atmIV |-> atmIV,
   dte |-> dte,
   volatilityRange |-> HandlerVolatilityRange(currentPrice, atmIV, dte),
   gexData |-> gex,
   taScore |-> [score |-> ta, trend |-> trend],
   ivRank |-> [ivRank |-> ivr],
   earnings |-> [hasEarningsNear |-> hasEarningsNear],
   optionsChain |-> chain]

\* the tail shared by generateAllStrategies and generateStrategiesWithRealPrices:
\* given the scored candidates, sort by score descending, assign rank and
\* medal, return the first three
RankAndReturn(scored) ==
  /\ candidates' = scored
  /\ \E sorted \in SortByScoreOutcomes(scored) : ranked' = Top3(AssignRanks(sorted))

\* generateAllStrategies(params)
GenerateAllStrategies ==
  /\ phase = "input"
  /\ rawChain = << >>
  /\ \E currentPrice \in Prices, atmIV \in IVs, ivr \in IvRankValues,
        trend \in Trends, ta \in TaScoreValues, gex \in GexSummaries,
        hasEarningsNear \in BOOLEAN :
       \E params \in {EngineParams(currentPrice, atmIV, ivr, trend, ta, gex,
                                   EmptyChain, hasEarningsNear)} :
          /\ market' = params
          /\ volatilityRange' = params.volatilityRange
          /\ RankAndReturn(EnhancedScored(EnhancedCandidates(params), params))
  /\ pipeline' = "enhanced"
  /\ phase' = "done"
  /\ UNCHANGED << dte, rawChain, optionsChain, result, rerun, service >>

\* the upstream feed delivers one more raw contract
FeedContract ==
  /\ phase = "input"
  /\ Len(rawChain) < MaxQuotes
  /\ \E option \in RawUniverse(dte) : rawChain' = Append(rawChain, option)
  /\ UNCHANGED << dte, optionsChain, market, volatilityRange, candidates, ranked,
                  pipeline, phase, result, rerun, service >>

\* optionsChain = parseOptionsChain(optionsData.data, parseInt(dte))
ParseOptionsChain ==
  /\ phase = "input"
  /\ optionsChain' = parseOptionsChain(rawChain, dte)
  /\ phase' = "parsed"
  /\ UNCHANGED << dte, rawChain, market, volatilityRange, candidates, ranked,
                  pipeline, result, rerun, service >>

\* taScore as the handler derives it from the quote's change percent
HandlerTaScore(changePercent) ==
  [score |-> IF changePercent > 2 THEN 75 ELSE IF changePercent > 0 THEN 65
             ELSE IF changePercent > -2 THEN 55 ELSE 45,
   trend |-> IF changePercent > 1 THEN "bullish"
             ELSE IF changePercent < -1 THEN "bearish" ELSE "neutral"]

\* ivRank as the handler derives it from the at-the-money implied volatility
HandlerIvRank(atmIV) ==
  [ivRank |-> IF QLess(Q(40, 100), atmIV) THEN 75
              ELSE IF QLess(Q(30, 100), atmIV) THEN 60
              ELSE IF QLess(Q(20, 100), atmIV) THEN 45 ELSE 30]

\* the earnings summary the handler builds: never near
HandlerEarnings == [hasEarningsNear |-> FALSE]

\* steps 4 to 9 of the handler: generateStrategiesWithRealPrices(params)
GenerateStrategiesWithRealPrices ==
  /\ phase = "parsed"
  /\ \E currentPrice \in ChainPrices, atmIV \in IVs, changePercent \in ChangePercents,
        gex \in GexSummaries :
       \E params \in {EngineParams(currentPrice, atmIV, HandlerIvRank(atmIV).ivRank,
                                   HandlerTaScore(changePercent).trend,
                                   HandlerTaScore(changePercent).score, gex,
                                   optionsChain, HandlerEarnings.hasEarningsNear)} :
          /\ market' = params
          /\ volatilityRange' = params.volatilityRange
          /\ RankAndReturn(RealScored(RealCandidates(params), params))
  /\ pipeline' = "real"
  /\ phase' = "done"
  /\ UNCHANGED << dte, rawChain, optionsChain, result, rerun, service >>

\* market inputs of the baseline pipeline
MarketData(currentPrice, iv, ivr, trend, ta, gex, hasEarningsNear) ==
  [set |-> TRUE,
   currentPrice |-> currentPrice,
   iv |-> iv,
   dte |-> dte,
   ivRank |-> [ivRank |-> ivr],
   taScore |-> [score |-> ta, trend |-> trend],
   gexData |-> gex,
   earnings |-> [hasEarningsNear |-> hasEarningsNear]]

\* generateStrategies(marketData)
GenerateStrategies ==
  /\ phase = "input"
  /\ rawChain = << >>
  /\ \E currentPrice \in BaselinePrices, iv \in IVs, ivr \in IvRankValues,
        trend \in Trends, ta \in TaScoreValues, gex \in GexSummaries,
        hasEarningsNear \in BOOLEAN :
       \E marketData \in {MarketData(currentPrice, iv, ivr, trend, ta, gex,
                                      hasEarningsNear)} :
          /\ market' = marketData
          /\ volatilityRange' = calculateVolatilityRange(currentPrice, iv, dte)
          /\ IF Throws(marketData)
             THEN candidates' = << >> /\ phase' = "threw"
             ELSE candidates' = generateStrategies(marketData) /\ phase' = "generated"
  /\ pipeline' = "baseline"
  /\ UNCHANGED << dte, rawChain, optionsChain, ranked, result, rerun, service >>

\* scoreAndRankStrategies(strategies, marketData)
ScoreAndRankStrategies ==
  /\ phase = "generated"
  /\ \E scored \in {BaselineScored(candidates, market)} :
       /\ candidates' = scored
       /\ ranked' \in SortByScoreOutcomes(scored)
  /\ phase' = "done"
  /\ UNCHANGED << dte, rawChain, optionsChain, market, volatilityRange, pipeline,
                  result, rerun, service >>

\* calculateVolatilityRange(currentPrice, iv, dte) called on its own
CalculateVolatilityRange ==
  /\ phase = "input"
  /\ rawChain = << >>
  /\ \E currentPrice \in BandPrices \cup InvalidPrices,
        iv \in BandIVs \cup InvalidIVs, days \in BandDtes(dte) :
       /\ market' = [set |-> TRUE, currentPrice |-> currentPrice, iv |-> iv,
                     dte |-> days]
       /\ volatilityRange' = calculateVolatilityRange(currentPrice, iv, days)
  /\ pipeline' = "band"
  /\ phase' = "done"
  /\ UNCHANGED << dte, rawChain, optionsChain, candidates, ranked, result, rerun, service >>

\* calculateProbabilityInRange(currentPrice, lowerBound, upperBound, iv, dte)
\* called on its own with lowerBound <= upperBound
CalculateProbabilityInRange ==
  /\ phase = "input"
  /\ rawChain = << >>
  /\ \E currentPrice \in ProbabilityPrices, iv \in IVs,
        lowerBound \in RangeBounds, upperBound \in RangeBounds :
       /\ QLeq(lowerBound, upperBound)
       /\ market' = [set |-> TRUE, currentPrice |-> currentPrice, iv |-> iv,
                     dte |-> dte, lowerBound |-> lowerBound,
                     upperBound |-> upperBound]
       /\ result' = calculateProbabilityInRange(currentPrice, lowerBound, upperBound,
                                                iv, dte)
  /\ pipeline' = "probability"
  /\ phase' = "done"
  /\ UNCHANGED << dte, rawChain, optionsChain, volatilityRange, candidates, ranked, rerun, service >>

\* adjustVolatilityWithGEX(volatilityRange, gexData) called on the band of
\* calculateVolatilityRange
AdjustVolatilityWithGEX ==
  /\ phase = "input"
  /\ rawChain = << >>
  /\ \E currentPrice \in ProbabilityPrices \cup {Num(0)}, iv \in IVs :
       \E gexData \in GexInputs(currentPrice) :
          /\ market' = [set |-> TRUE, currentPrice |-> currentPrice, iv |-> iv,
                        dte |-> dte, gexData |-> gexData]
          /\ volatilityRange' = calculateVolatilityRange(currentPrice, iv, dte)
          /\ result' = adjustVolatilityWithGEX(
                         calculateVolatilityRange(currentPrice, iv, dte), gexData)
  /\ pipeline' = "gex"
  /\ phase' = "done"
  /\ UNCHANGED << dte, rawChain, optionsChain, candidates, ranked, rerun, service >>

\* findOptionByStrike(options, targetStrike) called on one side of the parsed chain
FindOptionByStrike ==
  /\ phase = "parsed"
  /\ \E side \in {"calls", "puts"}, targetStrike \in TargetStrikes :
       /\ market' = [set |-> TRUE, side |-> side, targetStrike |-> targetStrike]
       /\ result' = findOptionByStrike(optionsChain[side], targetStrike)
  /\ pipeline' = "lookup"
  /\ phase' = "done"
  /\ UNCHANGED << dte, rawChain, optionsChain, volatilityRange, candidates, ranked, rerun, service >>

\* The handler's core steps run a second time on the same raw contract list and
\* the same market snapshot, `later` days after the first run: parseOptionsChain
\* reads the wall clock again, generation, scoring and ranking follow.
RunAgain ==
  /\ pipeline = "real"
  /\ phase = "done"
  /\ firstRun = NoRun
  /\ \E later \in 0..MaxDaysLater :
       /\ today' = today + later
       /\ \E chain \in {parseOptionsChainAt(rawChain, dte, today + later)} :
            \E params \in {[market EXCEPT !.optionsChain = chain]} :
               /\ optionsChain' = chain
               /\ market' = params
               /\ RankAndReturn(RealScored(RealCandidates(params), params))
  /\ firstRun' = [optionsChain |-> optionsChain, candidates |-> candidates,
                  ranked |-> ranked]
  /\ UNCHANGED << dte, rawChain, volatilityRange, pipeline, phase, result, service >>

\* req.query: symbol ("" when missing), dte, and nocache, which only the V4
\* handler reads
Requests ==
  {[symbol |-> "TSLA", dte |-> 7, nocache |-> FALSE],
   [symbol |-> "TSLA", dte |-> 7, nocache |-> TRUE],
   [symbol |-> "SPY", dte |-> 14, nocache |-> FALSE],
   [symbol |-> "", dte |-> 7, nocache |-> FALSE]}

\* `${upperSymbol}-${dte}`
CacheKey(req) == req.symbol \o "-" \o ToString(req.dte)

\* the price the quote endpoint reports for a symbol
QuotedPrice(symbol) == IF symbol = "TSLA" THEN Q(2505, 10) ELSE Num(240)

\* optionsData.data when the options endpoint has data for the symbol
OptionsData(d) ==
  << RawContract("put", Num(225), Q(80, 100), Q(90, 100), d + 1),
     RawContract("put", Num(240), Q(110, 100), Q(120, 100), d + 1),
     RawContract("call", Num(265), Q(95, 100), Q(105, 100), d + 1) >>

\* let atmIV = 0.30, replaced by the implied volatility of the nearest call
HandlerAtmIV(hasOptions) == IF hasOptions THEN Q(35, 100) ELSE Q(30, 100)

\* gexData: the default, or what the GEX endpoint reports
HandlerGex(available) ==
  IF available THEN [gamma_environment |-> "positive", available |-> TRUE]
  ELSE [gamma_environment |-> "neutral", available |-> FALSE]

\* the arguments of generateStrategiesWithRealPrices for a request
RequestParams(req, hasOptions, gexAvailable) ==
  [set |-> TRUE,
   currentPrice |-> QuotedPrice(req.symbol),
   atmIV |-> HandlerAtmIV(hasOptions),
   dte |-> req.dte,
   volatilityRange |-> HandlerVolatilityRange(QuotedPrice(req.symbol),
                                              HandlerAtmIV(hasOptions), req.dte),
   gexData |-> HandlerGex(gexAvailable),
   taScore |-> HandlerTaScore(0),
   ivRank |-> HandlerIvRank(HandlerAtmIV(hasOptions)),
   earnings |-> HandlerEarnings,
   optionsChain |-> IF hasOptions
                    THEN parseOptionsChain(OptionsData(req.dte), req.dte)
                    ELSE EmptyChain]

\* the candidate lists the handler may return for the arguments
ReturnedStrategies(params) ==
  {Top3(AssignRanks(sorted)) :
     sorted \in SortByScoreOutcomes(RealScored(RealCandidates(params), params))}

\* the same, tabulated per request and per outcome of the options and GEX
\* fetches
StrategyTable ==
  UNION {{[req |-> req, hasOptions |-> hasOptions, gexAvailable |-> gexAvailable,
           strategies |-> strategies] :
            strategies \in
              ReturnedStrategies(RequestParams(req, hasOptions, gexAvailable))} :
         req \in Requests, hasOptions \in BOOLEAN, gexAvailable \in BOOLEAN}

HandlerStrategies(req, hasOptions, gexAvailable) ==
  {row.strategies : row \in {r \in StrategyTable :
                                /\ r.req = req
                                /\ r.hasOptions = hasOptions
                                /\ r.gexAvailable = gexAvailable}}

\* const result = {symbol, currentPrice, dte, strategies, optionsAvailable,
\* timestamp, cached: false, ...}
AnalysisResult(req, hasOptions, strategies, t) ==
  [symbol |-> req.symbol, dte |-> req.dte, currentPrice |-> QuotedPrice(req.symbol),
   strategies |-> strategies, optionsAvailable |-> hasOptions, timestamp |-> t,
   cached |-> FALSE]

\* {...cached, cached: true}
CachedResponseAsStored(stored) == stored

\* {...cached, cached: true}
CachedResponse(stored) == [stored EXCEPT !.cached = TRUE]

\* res.status(status).json(body)
Respond(inv, status, body) ==
  [inv EXCEPT !.pc = "responded", !.fetch = NoCall, !.status = status, !.body = body]

\* await fetchWithRetry(url): fetch(url) is called before the first await
AwaitFetch(inv, stage) ==
  [inv EXCEPT !.pc = stage, !.fetch = StartFetch(DefaultRetries), !.fetched = TRUE]

\* The handler from its entry to its first await: the 400 answer to a missing
\* symbol, the cache lookup (skipped on nocache) and the answer from the
\* cache, or the start of the quote fetch.  Yields the invocation and the Map.
Enter(req, c, t, got) ==
  IF req.symbol = ""
  THEN [inv |-> Respond(Received(req, c, t, FALSE), 400, NoBody), cache |-> c]
  ELSE IF req.nocache
  THEN [inv |-> AwaitFetch(Received(req, c, t, FALSE), "quote"), cache |-> c]
  ELSE [inv |-> IF got.returned.hit
                THEN Respond(Received(req, c, t, TRUE), 200,
                             CachedResponse(got.returned.data))
                ELSE AwaitFetch(Received(req, c, t, TRUE), "quote"),
        cache |-> got.cache]

\* The handler resumed by the end of the fetch it awaits, up to its next
\* await or its answer.  `content` tells whether the JSON carries what the
\* handler looks for: the quote, a non-empty data list, zero_gamma.  An
\* undefined quote throws a TypeError; undefined options or GEX data count
\* as missing; a rejected GEX fetch is caught.
Resume(inv, f, content, c, t, strategies) ==
  IF f.outcome = "pending" THEN [inv |-> [inv EXCEPT !.fetch = f], cache |-> c]
  ELSE IF inv.pc = "quote"
  THEN [inv |-> IF f.outcome = "json" /\ content THEN AwaitFetch(inv, "options")
                ELSE Respond(inv, 500, NoBody),
        cache |-> c]
  ELSE IF inv.pc = "options"
  THEN [inv |-> IF f.outcome = "rejected" THEN Respond(inv, 500, NoBody)
                ELSE AwaitFetch([inv EXCEPT !.hasOptions = (f.outcome = "json" /\ content)],
                                "gex"),
        cache |-> c]
  ELSE [inv |-> Respond(inv, 200, AnalysisResult(inv.req, inv.hasOptions, strategies, t)),
        cache |-> setCache(c, CacheKey(inv.req),
                           AnalysisResult(inv.req, inv.hasOptions, strategies, t),
                           HandlerTtl, t)]

\* a request reaches the handler
Invoke ==
  /\ started < MaxInvocations
  /\ \E s \in Slots, req \in Requests :
       /\ invocations[s].pc \in {"idle", "responded"}
       /\ \E entered \in {Enter(req, cache, now, getCache(cache, CacheKey(req), now))} :
            /\ invocations' = [invocations EXCEPT ![s] = entered.inv]
            /\ cache' = entered.cache
  /\ started' = started + 1
  /\ UNCHANGED << pipelineVars, rerun, fetchCall, responses, now, written, lastGet >>

\* the upstream answers the fetch an invocation awaits
HandlerFetch ==
  /\ \E s \in Slots, kind \in ResponseKinds, content \in BOOLEAN :
       /\ invocations[s].pc \in {"quote", "options", "gex"}
       /\ \E strategies \in
              (IF invocations[s].pc = "gex"
               THEN HandlerStrategies(invocations[s].req, invocations[s].hasOptions,
                                      kind = "ok" /\ content)
               ELSE {<< >>}) :
            \E resumed \in {Resume(invocations[s], FetchStep(invocations[s].fetch, kind),
                                    content, cache, now, strategies)} :
               /\ invocations' = [invocations EXCEPT ![s] = resumed.inv]
               /\ cache' = resumed.cache
  /\ UNCHANGED << pipelineVars, rerun, fetchCall, responses, now, written, lastGet,
                  started >>

\* fetchWithRetry(url) or fetchWithRetry(url, retries) is called
CallFetchWithRetry ==
  /\ fetchCall.outcome = "idle"
  /\ \E retries \in RetryCounts : fetchCall' = StartFetch(retries)
  /\ responses' = << >>
  /\ UNCHANGED << pipelineVars, rerun, now, cache, written, lastGet, invocations, started >>

\* the upstream answers the attempt the call is waiting for
FetchAttempt ==
  /\ fetchCall.outcome = "pending"
  /\ \E kind \in ResponseKinds :
       /\ fetchCall' = FetchStep(fetchCall, kind)
       /\ responses' = Append(responses, kind)
  /\ UNCHANGED << pipelineVars, rerun, now, cache, written, lastGet, invocations, started >>

\* time passes
Tick ==
  /\ now + TickMs <= MaxTicks * TickMs
  /\ now' = now + TickMs
  /\ UNCHANGED << pipelineVars, rerun, fetchCall, responses, cache, written, lastGet,
                  invocations, started >>

\* setCache(key, data) or setCache(key, data, ttl)
SetCache ==
  /\ \E key \in CacheKeys, data \in CacheData, arg \in TtlArguments :
       /\ cache' = setCache(cache, key, data, TtlOrDefault(arg), now)
       /\ written' = [written EXCEPT ![key] =
                        [at |-> now, data |-> data, ttl |-> arg]]
  /\ UNCHANGED << pipelineVars, rerun, fetchCall, responses, now, lastGet,
                  invocations, started >>

\* getCache(key)
GetCache ==
  /\ \E key \in CacheKeys :
       \E got \in {getCache(cache, key, now)} :
          /\ cache' = got.cache
          /\ lastGet' = [key |-> key, at |-> now, returned |-> got.returned,
                          since |-> written[key], kept |-> key \in DOMAIN got.cache]
  /\ UNCHANGED << pipelineVars, rerun, fetchCall, responses, now, written,
                  invocations, started >>

\* clearCache(key) or clearCache()
ClearCache ==
  /\ \E key \in CacheKeys, all \in BOOLEAN :
       /\ cache' = clearCache(cache, key, all)
       /\ written' = [k \in CacheKeys |->
                        IF all \/ k = key THEN NoWrite ELSE written[k]]
  /\ UNCHANGED << pipelineVars, rerun, fetchCall, responses, now, lastGet,
                  invocations, started >>

\* cleanExpiredCache(), by the interval timer or a direct call
CleanExpiredCache ==
  /\ cache' = cleanExpiredCache(cache, now)
  /\ UNCHANGED << pipelineVars, rerun, fetchCall, responses, now, written, lastGet,
                  invocations, started >>

Next ==
  \/ CalculateVolatilityRange
  \/ FindOptionByStrike
  \/ AdjustVolatilityWithGEX
  \/ CalculateProbabilityInRange
  \/ GenerateAllStrategies
  \/ GenerateStrategies
  \/ ScoreAndRankStrategies
  \/ FeedContract
  \/ ParseOptionsChain
  \/ GenerateStrategiesWithRealPrices

Spec == Init /\ [][Next]_vars

\* The real-price pipeline run twice over one feed and one snapshot.
RerunNext ==
  \/ FeedContract
  \/ ParseOptionsChain
  \/ GenerateStrategiesWithRealPrices
  \/ RunAgain

RerunSpec == Init /\ [][RerunNext]_vars

\* One fetchWithRetry call against every sequence of upstream answers.
FetchNext ==
  \/ CallFetchWithRetry
  \/ FetchAttempt

FetchSpec == Init /\ [][FetchNext]_vars

\* The cache module called directly while time passes.
CacheNext ==
  \/ Tick
  \/ SetCache
  \/ GetCache
  \/ ClearCache
  \/ CleanExpiredCache

CacheSpec == Init /\ [][CacheNext]_vars

\* The caching analyze handler serving requests while time passes.
HandlerNext ==
  \/ Tick
  \/ Invoke
  \/ HandlerFetch

HandlerSpec == Init /\ [][HandlerNext]_vars

(***************************************************************************)
(* Properties                                                              *)
(***************************************************************************)
\* a pipeline has returned its list
Returned == phase = "done" /\ pipeline \in {"enhanced", "real", "baseline"}

\* C1: the list a ranking step returns has at most 3 entries, scores that never
\* increase from one position to the next, and ranks 1, 2, ..., n in list order
C1_RankedListShape ==
  Returned =>
    /\ Len(ranked) <= 3
    /\ \A i \in 1..(Len(ranked) - 1) : QLeq(ranked[i + 1].score, ranked[i].score)
    /\ \A i \in 1..Len(ranked) : ranked[i].rank = i

\* C2: every score assigned to a candidate is an integer in 0..100, never NaN
C2_ScoreInRange ==
  Returned =>
    \A i \in 1..Len(candidates) :
       /\ IsInt(candidates[i].score)
       /\ candidates[i].score.n \in 0..100

\* C3: every emitted candidate has a contract count that is a finite integer >= 1
C3_ContractsAtLeastOne ==
  \A i \in 1..Len(candidates) :
     /\ IsInt(candidates[i].contracts)
     /\ candidates[i].contracts.n >= 1

\* the pipeline priced the candidate from the premium formula, not from quotes
Estimated(c) == ~c.usingRealPrices

IsCreditType(c) ==
  c.type \in {"iron_condor", "vertical_spread", "credit_spread", "cash_secured_put"}

IsDebitType(c) == c.type \in {"butterfly", "calendar_spread", "diagonal_spread"}

\* C4 as stated: in estimated mode every candidate of every strategy type has a
\* total net credit (net debit for debit strategies) of at least 150
C4_EstimatedPremiumFloor ==
  \A i \in 1..Len(candidates) :
     Estimated(candidates[i]) =>
       /\ IsCreditType(candidates[i]) => QLeq(Num(MinCredit), candidates[i].netCredit)
       /\ IsDebitType(candidates[i]) => QLeq(Num(MinCredit), candidates[i].netDebit)

\* C4 as amended: in estimated mode every candidate of a credit strategy type
\* (iron condor, vertical/credit spread, cash-secured put) has a total net credit
\* of at least 150
C4_EstimatedCreditFloor ==
  \A i \in 1..Len(candidates) :
     (Estimated(candidates[i]) /\ IsCreditType(candidates[i]))
       => QLeq(Num(MinCredit), candidates[i].netCredit)

\* an estimated-mode run sized a vertical spread with more than one contract next
\* to a debit strategy whose net debit stays below the floor
C4_Witness ==
  /\ pipeline = "enhanced"
  /\ \E i \in 1..Len(candidates) :
       /\ candidates[i].type = "vertical_spread"
       /\ candidates[i].contracts.n > 1
  /\ \E i \in 1..Len(candidates) :
       /\ IsDebitType(candidates[i])
       /\ QLess(candidates[i].netDebit, Num(MinCredit))

\* C5: every strategy the real-price pipeline returns has netCredit >= 150
C5_RealNetCreditFloor ==
  (phase = "done" /\ pipeline = "real") =>
    \A i \in 1..Len(ranked) : QLeq(Num(MinCredit), ranked[i].netCredit)

\* number of candidates of a strategy type
CountOfType(list, type) == Cardinality({i \in 1..Len(list) : list[i].type = type})

\* C6: before ranking, generateAllStrategies holds at most one candidate per type:
\* an iron condor iff IV-rank >= 45, a vertical spread always, a butterfly iff
\* IV-rank <= 60, a cash-secured put iff the trend is not bearish, a calendar
\* spread iff dte >= 7, a diagonal spread iff dte >= 7 and the trend is not neutral
C6_EnhancedGates ==
  pipeline = "enhanced" =>
    LET ivr == market.ivRank.ivRank
        trend == market.taScore.trend
        Has(type, gate) == CountOfType(candidates, type) = (IF gate THEN 1 ELSE 0)
    IN  /\ Has("iron_condor", ivr >= 45)
        /\ Has("vertical_spread", TRUE)
        /\ Has("butterfly", ivr <= 60)
        /\ Has("cash_secured_put", trend # "bearish")
        /\ Has("calendar_spread", dte >= 7)
        /\ Has("diagonal_spread", dte >= 7 /\ trend # "neutral")
        /\ Len(candidates) = (IF ivr >= 45 THEN 1 ELSE 0) + 1
                             + (IF ivr <= 60 THEN 1 ELSE 0)
                             + (IF trend # "bearish" THEN 1 ELSE 0)
                             + (IF dte >= 7 THEN 1 ELSE 0)
                             + (IF dte >= 7 /\ trend # "neutral" THEN 1 ELSE 0)

\* the iron-condor gate passes at its threshold while the calendar, diagonal and
\* cash-secured-put gates fail
C6_Witness ==
  /\ pipeline = "enhanced"
  /\ market.ivRank.ivRank = 45
  /\ market.taScore.trend = "bearish"
  /\ dte = 3
  /\ Len(candidates) = 3

IsSpreadType(c) == c.type \in {"vertical_spread", "credit_spread"}

\* C7: every vertical/credit spread sells the put side with the long strike below
\* the short strike when the trend is bullish or neutral, and sells the call side
\* with the long strike above the short strike exactly when the trend is bearish
C7_SpreadSideFollowsTrend ==
  \A i \in 1..Len(candidates) :
     IsSpreadType(candidates[i]) =>
       IF market.taScore.trend = "bearish"
       THEN /\ candidates[i].name = "BearCallCreditSpread"
            /\ QLess(candidates[i].strikes.sell, candidates[i].strikes.buy)
       ELSE /\ candidates[i].name = "BullPutCreditSpread"
            /\ QLess(candidates[i].strikes.buy, candidates[i].strikes.sell)

\* every strike of the candidate is the strike of a quote of the parsed chain
LegsResolved(c) ==
  \A leg \in DOMAIN c.strikes :
     \E side \in {optionsChain.calls, optionsChain.puts} :
        \E k \in 1..Len(side) : side[k].strike = c.strikes[leg]

\* C8: in the real-price pipeline every eligible strategy is emitted, in estimated
\* mode when a leg cannot be resolved from the chain, and no candidate priced
\* from quotes has an unresolved leg
C8_UnresolvedLegFallsBack ==
  pipeline = "real" =>
    /\ CountOfType(candidates, "vertical_spread") = 1
    /\ market.taScore.trend # "bearish"
         => CountOfType(candidates, "cash_secured_put") = 1
    /\ market.ivRank.ivRank >= 45 => CountOfType(candidates, "iron_condor") = 1
    /\ \A i \in 1..Len(candidates) :
          IF candidates[i].usingRealPrices THEN LegsResolved(candidates[i])
          ELSE Estimated(candidates[i])

\* spread width of a candidate is positive (strategies without a width pass)
PositiveWidth(c) ==
  IF c.type = "iron_condor"
  THEN QLess(c.strikes.putBuy, c.strikes.putSell)
       /\ QLess(c.strikes.callSell, c.strikes.callBuy)
  ELSE IF IsSpreadType(c) THEN c.strikes.buy # c.strikes.sell
  ELSE IF c.type = "butterfly"
  THEN QLess(c.strikes.lower, c.strikes.center)
       /\ QLess(c.strikes.center, c.strikes.upper)
  ELSE IF c.type = "diagonal_spread" THEN c.strikes.shortStrike # c.strikes.longStrike
  ELSE TRUE

\* C9: no candidate in the output of a pipeline is degenerate: its width is
\* positive, its max risk is greater than 0, its net debit is greater than 0 for
\* a debit strategy, and its ROC is finite
C9_NoDegenerateCandidate ==
  Returned =>
    \A i \in 1..Len(ranked) :
       /\ PositiveWidth(ranked[i])
       /\ QLess(Num(0), ranked[i].maxRisk)
       /\ IsDebitType(ranked[i]) => QLess(Num(0), ranked[i].netDebit)
       /\ IsFinite(ranked[i].roc)

\* price, iv and dte handed to calculateVolatilityRange are all greater than 0
PositiveInputs ==
  /\ QLess(Num(0), market.currentPrice)
  /\ QLess(Num(0), market.iv)
  /\ market.dte > 0

\* calculateVolatilityRange returned a band for the positive inputs held in market
BandComputed ==
  pipeline \in {"band", "baseline"} /\ PositiveInputs /\ volatilityRange.valid

\* the band brackets the price strictly and its 2-sigma range strictly contains
\* its 1-sigma range
StrictlyNested(band) ==
  /\ QLess(band.oneSigma.lower, band.currentPrice)
  /\ QLess(band.currentPrice, band.oneSigma.upper)
  /\ QLess(band.twoSigma.lower, band.oneSigma.lower)
  /\ QLess(band.oneSigma.upper, band.twoSigma.upper)

\* C10 as stated: for all price, iv, dte > 0 the rounded band satisfies
\* oneSigma.lower < price < oneSigma.upper, twoSigma.lower < oneSigma.lower and
\* oneSigma.upper < twoSigma.upper
C10_BandStrictlyNested == BandComputed => StrictlyNested(volatilityRange)

\* the 1-sigma move price * iv * sqrt(dte / 365) before rounding is at least
\* one and a half cents
MoveAboveRounding ==
  LET thousandths == QMul(QMul(QMul(market.currentPrice, market.iv),
                               TimeFactor(market.dte)), Num(1000))
  IN  PositiveInputs /\ thousandths.n \div thousandths.d >= 15

\* C10 as amended: the strict inequalities hold after rounding whenever the
\* unrounded 1-sigma move is at least 0.015
C10_BandStrictlyNestedAboveRounding ==
  (BandComputed /\ MoveAboveRounding) => StrictlyNested(volatilityRange)

\* a band for a price with more than two decimals whose move is above the
\* rounding unit, with 1-sigma and 2-sigma bounds all distinct
C10_Witness ==
  /\ pipeline = "band"
  /\ volatilityRange.valid
  /\ MoveAboveRounding
  /\ market.currentPrice = Q(1004, 1000)
  /\ QLess(volatilityRange.twoSigma.lower, volatilityRange.oneSigma.lower)

\* calculateVolatilityRange was called, on its own or by the baseline generator
BandRequested == pipeline \in {"band", "baseline"}

\* C11: whenever price, iv or dte is missing, zero or negative,
\* calculateVolatilityRange returns no band, and the strategy generator that
\* called it stops without producing candidates
C11_InvalidInputRefused ==
  (BandRequested /\ ~PositiveInputs) =>
    /\ ~volatilityRange.valid
    /\ pipeline = "baseline" => (phase = "threw" /\ candidates = << >>)

\* C12: for price, iv, dte > 0 and bounds lower <= upper (infinite bounds and a
\* finite bound of 0 included) calculateProbabilityInRange returns a number in
\* [0, 1], never null or NaN, and returns 1 for the range (-Infinity, +Infinity)
C12_ProbabilityInUnitInterval ==
  pipeline = "probability" =>
    /\ ~IsNull(result)
    /\ QLeq(Num(0), result) /\ QLeq(result, Num(1))
    /\ (market.lowerBound = NInf /\ market.upperBound = PInf) => result = Num(1)

\* adjustVolatilityWithGEX was handed a band and a summary with a zero-gamma level
GexAdjusted ==
  /\ pipeline = "gex"
  /\ volatilityRange.valid
  /\ market.gexData.present
  /\ Truthy(market.gexData.zero_gamma)

\* the factor the band width is to be scaled by
WidthFactor ==
  QMul(IF market.gexData.gamma_environment = "positive" THEN Q(85, 100)
       ELSE IF market.gexData.gamma_environment = "negative" THEN Q(115, 100)
       ELSE Num(1),
       IF QLess(QAbs(QSub(market.currentPrice, market.gexData.zero_gamma)),
                QMul(market.currentPrice, Q(2, 100)))
       THEN Q(11, 10) ELSE Num(1))

\* |x - y| is at most one cent, the unit the bounds are rounded to
WithinOneCent(x, y) == QLeq(QAbs(QSub(x, y)), Q(1, 100))

\* C13: adjustVolatilityWithGEX scales the width of the 1-sigma band by the factor
\* (0.85 positive, 1.15 negative, 1.0 otherwise, times 1.10 within 2% of the
\* zero-gamma level) and leaves the band centred on the spot price
C13_GexScalesWidthAroundSpot ==
  GexAdjusted =>
    /\ WithinOneCent(QSub(result.oneSigma.upper, result.oneSigma.lower),
                     QMul(WidthFactor, QSub(volatilityRange.oneSigma.upper,
                                            volatilityRange.oneSigma.lower)))
    /\ WithinOneCent(QAdd(result.oneSigma.upper, result.oneSigma.lower),
                     QMul(Num(2), market.currentPrice))

\* gamma data is unavailable: no summary, or a summary flagged not available
GexUnavailable ==
  pipeline = "gex" /\ (~market.gexData.present \/ ~market.gexData.available)

\* C14: when gamma data is unavailable adjustVolatilityWithGEX returns the band
\* with its upper and lower bounds unchanged
C14_GexUnavailableKeepsBand ==
  GexUnavailable =>
    IF volatilityRange.valid
    THEN /\ result.oneSigma.upper = volatilityRange.oneSigma.upper
         /\ result.oneSigma.lower = volatilityRange.oneSigma.lower
    ELSE result = volatilityRange

\* parseOptionsChain has run on the raw chain
Parsed == phase = "parsed" \/ pipeline = "real"

\* the raw contract expires within 3 days of the target
InWindow(option) == Abs(option.daysOut - dte) <= 3

\* the raw contract and the parsed quote agree: same type, strike and
\* expiration, bid and ask with a missing value as 0, mid halfway between them
QuoteOf(option, quote) ==
  LET bid == IF IsNaN(option.bid) THEN Num(0) ELSE option.bid
      ask == IF IsNaN(option.ask) THEN Num(0) ELSE option.ask
  IN  /\ quote.type = option.type
      /\ quote.strike = option.strike
      /\ quote.daysToExp = option.daysOut
      /\ quote.bid = bid
      /\ quote.ask = ask
      /\ QAdd(quote.mid, quote.mid) = QAdd(bid, ask)

\* the side list holds exactly the raw contracts of the type that are in the window
SideHolds(side, type) ==
  /\ \A k \in 1..Len(side) : side[k].type = type
  /\ \A k \in 1..Len(side) :
        Cardinality({j \in 1..Len(side) : side[j] = side[k]})
          = Cardinality({i \in 1..Len(rawChain) :
                           InWindow(rawChain[i]) /\ QuoteOf(rawChain[i], side[k])})
  /\ Len(side) = Cardinality({i \in 1..Len(rawChain) :
                                InWindow(rawChain[i]) /\ rawChain[i].type = type})
  /\ \A k \in 1..(Len(side) - 1) : QLeq(side[k].strike, side[k + 1].strike)

\* C15: parseOptionsChain returns exactly the raw contracts expiring within 3 days
\* of the target, calls in calls and puts in puts, with mid = (bid + ask) / 2
\* where a missing bid or ask counts as 0, each list in ascending strike order
C15_ParsedChainFilteredAndSorted ==
  Parsed => (SideHolds(optionsChain.calls, "call") /\ SideHolds(optionsChain.puts, "put"))

\* the feed delivered a put outside the window and two puts inside it in
\* descending strike order, one of them without a bid
C15_Witness ==
  /\ Parsed
  /\ Len(rawChain) = 3
  /\ Len(optionsChain.puts) = 2
  /\ \E k \in 1..Len(rawChain) : rawChain[k].type = "put" /\ ~InWindow(rawChain[k])
  /\ \E i, j \in 1..Len(rawChain) :
        /\ i < j
        /\ InWindow(rawChain[i]) /\ InWindow(rawChain[j])
        /\ QLess(rawChain[j].strike, rawChain[i].strike)
        /\ IsNaN(rawChain[j].bid)

\* absolute strike distance of a quote to the target of the lookup
StrikeDistance(quote) == QAbs(QSub(quote.strike, market.targetStrike))

\* position k holds the first quote of the side list at minimal distance
FirstClosest(side, k) ==
  /\ \A j \in 1..Len(side) : QLeq(StrikeDistance(side[k]), StrikeDistance(side[j]))
  /\ \A j \in 1..(k - 1) : QLess(StrikeDistance(side[k]), StrikeDistance(side[j]))

\* C16: for a non-empty side list findOptionByStrike returns a contract at minimal
\* absolute strike distance to the target, the first in list order among those
\* at that distance; for an empty side list it returns no contract
C16_NearestFirstInListOrder ==
  pipeline = "lookup" =>
    IF Len(optionsChain[market.side]) = 0 THEN result = NoOption
    ELSE \E k \in 1..Len(optionsChain[market.side]) :
            /\ FirstClosest(optionsChain[market.side], k)
            /\ result = optionsChain[market.side][k]

\* a lookup in a list where two different quotes are at the same minimal distance
C16_Witness ==
  /\ pipeline = "lookup"
  /\ \E j, k \in 1..Len(optionsChain[market.side]) :
        /\ j < k
        /\ FirstClosest(optionsChain[market.side], j)
        /\ StrikeDistance(optionsChain[market.side][k])
             = StrikeDistance(optionsChain[market.side][j])
        /\ optionsChain[market.side][k] # optionsChain[market.side][j]
        /\ result = optionsChain[market.side][j]

\* a pipeline has scored its candidates and returned
Scored == pipeline \in {"enhanced", "real", "baseline"} /\ phase = "done"

\* the IV-rank fit the scoring function of the pipeline adds for a candidate
IvRankFitTerm(c) ==
  IF pipeline = "enhanced" THEN EnhancedIvrTerm(c, market.ivRank)
  ELSE IF pipeline = "real" THEN RealIvrTerm(c, market.ivRank)
  ELSE calculateIVRScore(c, market.ivRank)

\* the IV-rank fit stated for a strategy kind and an IV-rank
StatedIvRankFit(c, ivr) ==
  IF IsCreditType(c)
  THEN (IF ivr >= 70 THEN 15 ELSE IF ivr >= 50 THEN 12 ELSE IF ivr >= 30 THEN 8 ELSE 4)
  ELSE (IF ivr < 30 THEN 15 ELSE IF ivr < 50 THEN 10 ELSE 5)

\* C17: in every scoring function the IV-rank fit of a net-seller candidate is
\* 15, 12, 8, 4 for an IV-rank of at least 70, at least 50, at least 30, below
\* 30, and that of a net-buyer candidate is 15, 10, 5 for an IV-rank below 30,
\* below 50, otherwise
C17_IvRankFitTable ==
  Scored =>
    \A i \in 1..Len(candidates) :
       IvRankFitTerm(candidates[i])
         = StatedIvRankFit(candidates[i], market.ivRank.ivRank)

\* the direction of a candidate: its direction field where the generator sets
\* one, otherwise the direction of its strategy (an iron condor is neutral, a
\* bear call spread bearish, a bull put spread and a cash-secured put bullish)
CandidateDirection(c) ==
  IF c.direction \in Trends THEN c.direction
  ELSE IF c.type = "iron_condor" THEN "neutral"
  ELSE IF c.name = "BearCallCreditSpread" THEN "bearish"
  ELSE "bullish"

\* the direction fit the scoring function of the pipeline adds for a candidate
DirectionFitTerm(c) ==
  IF pipeline = "enhanced" THEN EnhancedDirectionTerm(c, market.taScore)
  ELSE RealDirectionTerm(c, market.taScore)

\* the direction fit stated for a candidate direction and a trend
StatedDirectionFit(direction, trend) ==
  IF direction = "neutral" THEN 10
  ELSE IF direction = trend THEN 10
  ELSE IF trend = "neutral" THEN 7
  ELSE 3

\* C18: in the scoring functions that add a direction fit, the term is 10 for a
\* neutral candidate, 10 for a directional candidate that matches the trend, 7
\* for a directional candidate under a neutral trend and 3 for a directional
\* candidate opposed to a non-neutral trend
C18_DirectionFitTable ==
  (Scored /\ pipeline \in {"enhanced", "real"}) =>
    \A i \in 1..Len(candidates) :
       DirectionFitTerm(candidates[i])
         = StatedDirectionFit(CandidateDirection(candidates[i]), market.taScore.trend)

\* the gamma fit the scoring function of the pipeline adds for a candidate
GexFitTerm(c) ==
  IF pipeline = "enhanced" THEN EnhancedGexTerm(c, market.gexData)
  ELSE IF pipeline = "real" THEN RealGexTerm(c, market.gexData)
  ELSE calculateGEXScore(c, market.gexData)

\* the gamma fit stated for a strategy kind and a gamma-exposure summary
StatedGexFit(c, gexData) ==
  IF ~gexData.available THEN 5
  ELSE IF IsCreditType(c)
       THEN (IF gexData.gamma_environment = "positive" THEN 10 ELSE 6)
       ELSE (IF gexData.gamma_environment = "negative" THEN 10 ELSE 6)

\* C19: in every scoring function, with gamma data available the gamma fit of a
\* seller candidate (iron condor, vertical spread, cash-secured put) is 10 in a
\* positive gamma environment and 6 otherwise, that of a buyer candidate is 10
\* in a negative gamma environment and 6 otherwise; with gamma data unavailable
\* it is 5 for every candidate
C19_GexFitTable ==
  Scored =>
    \A i \in 1..Len(candidates) :
       GexFitTerm(candidates[i]) = StatedGexFit(candidates[i], market.gexData)

\* the score of a candidate before clamping, as the scoring function of the
\* pipeline computes it from a market snapshot
ScoreBeforeClamp(c, snapshot) ==
  IF pipeline = "enhanced"
  THEN EnhancedScoreSum(c, snapshot.ivRank, snapshot.taScore, snapshot.gexData)
  ELSE IF pipeline = "real"
  THEN RealScoreSum(c, snapshot.ivRank, snapshot.taScore, snapshot.gexData)
  ELSE BaselineScoreSum(c, snapshot)

\* the same snapshot with no earnings event near
WithoutEarnings(snapshot) == [snapshot EXCEPT !.earnings.hasEarningsNear = FALSE]

\* a pipeline scored its candidates with an earnings event within 7 days
ScoredNearEarnings ==
  Scored /\ market.earnings.hasEarningsNear /\ Len(candidates) > 0

\* C20: in every scoring pipeline, with an earnings event within 7 days the score
\* of each candidate before clamping is exactly 10 below its score before
\* clamping with no earnings event near, all other inputs equal
C20_EarningsPenalty ==
  ScoredNearEarnings =>
    \A i \in 1..Len(candidates) :
       ScoreBeforeClamp(candidates[i], market)
         = QSub(ScoreBeforeClamp(candidates[i], WithoutEarnings(market)), Num(10))

\* the premium factor of the estimated-mode credit generators of
\* generateAllStrategies and of generateFallbackStrategy
CreditFactor(c) ==
  IF c.type = "iron_condor" THEN Q(25, 1000)
  ELSE IF c.type = "vertical_spread" THEN Q(18, 1000)
  ELSE Q(12, 1000)

\* the per-contract premium the generator of an estimated credit candidate
\* divides the floor of 150 by
SizingPremium(c) ==
  IF pipeline = "baseline"
  THEN estimateCredit(market.currentPrice, market.iv, market.dte, c.type)
  ELSE EstimatedPremium(market, CreditFactor(c))

\* the snapshot of a pipeline run has price > 0, iv > 0 and dte > 0
ValidSnapshot ==
  /\ pipeline \in {"enhanced", "real", "baseline"}
  /\ QLess(Num(0), market.currentPrice)
  /\ QLess(Num(0), IF pipeline = "baseline" THEN market.iv ELSE market.atmIV)
  /\ market.dte > 0

\* minimum absolute premium per contract of estimateCredit
MinPremium == 50

\* C22: in estimated mode, for price > 0, iv > 0 and dte > 0, the per-contract
\* premium every credit generator sizes its contract count with is at least 50
C22_EstimatedPremiumAtLeastMinimum ==
  ValidSnapshot =>
    \A i \in 1..Len(candidates) :
       (Estimated(candidates[i]) /\ IsCreditType(candidates[i]))
         => QLeq(Num(MinPremium), SizingPremium(candidates[i]))

\* maxRisk of a candidate is width * 100 * contracts - netCredit for the given
\* strike distance, up to the rounding of the generator
RiskMatchesWidth(c, width) ==
  QLeq(QAbs(QSub(c.maxRisk,
                 QSub(QMul(QMul(width, Num(100)), c.contracts), c.netCredit))),
       Num(1))

\* maxRisk follows from the reported strikes: of the two legs of a vertical
\* spread, of the put wing or the call wing of an iron condor
RiskMatchesReportedStrikes(c) ==
  IF c.type = "iron_condor"
  THEN \/ RiskMatchesWidth(c, QAbs(QSub(c.strikes.putSell, c.strikes.putBuy)))
       \/ RiskMatchesWidth(c, QAbs(QSub(c.strikes.callSell, c.strikes.callBuy)))
  ELSE RiskMatchesWidth(c, QAbs(QSub(c.strikes.sell, c.strikes.buy)))

\* C25: for every emitted iron condor and vertical spread, in both pricing
\* modes, maxRisk equals the distance between the reported short and long
\* strike x 100 x contracts - netCredit, up to the generator's rounding
C25_MaxRiskFromReportedStrikes ==
  ValidSnapshot =>
    \A i \in 1..Len(candidates) :
       candidates[i].type \in {"iron_condor", "vertical_spread", "credit_spread"}
         => RiskMatchesReportedStrikes(candidates[i])

\* the order in which the generators run
GeneratorOrder ==
  << "iron_condor", "vertical_spread", "butterfly", "cash_secured_put",
     "calendar_spread", "diagonal_spread" >>

\* the place of a candidate's generator in that order
GeneratorIndex(c) == CHOOSE k \in 1..Len(GeneratorOrder) : GeneratorOrder[k] = c.type

\* a pipeline that sorts, ranks and marks its candidates has returned
Ranked == phase = "done" /\ pipeline \in {"enhanced", "real"}

\* two candidates carry the same score (NaN equals nothing)
SameScore(a, b) == ~IsNaN(a.score) /\ a.score = b.score

\* C26: the ranking sort is stable: two candidates with equal scores appear in the
\* output in the order in which their generators ran, and the markers gold,
\* silver, bronze go to ranks 1, 2, 3 in that order
C26_StableRanking ==
  Ranked =>
    /\ \A i, j \in 1..Len(ranked) :
          (i < j /\ SameScore(ranked[i], ranked[j]))
            => GeneratorIndex(ranked[i]) < GeneratorIndex(ranked[j])
    /\ \A i \in 1..Len(ranked) :
          /\ ranked[i].rank = i
          /\ ranked[i].medal = << "gold", "silver", "bronze" >>[i]

\* the output holds two candidates with equal scores behind a candidate whose
\* generator ran after theirs
C26_Witness ==
  /\ Ranked
  /\ Len(ranked) = 3
  /\ SameScore(ranked[2], ranked[3])
  /\ GeneratorIndex(ranked[2]) < GeneratorIndex(ranked[3])
  /\ GeneratorIndex(ranked[3]) < GeneratorIndex(ranked[1])

\* the four strikes of an iron condor bracket the spot price in order
OrderedAroundSpot(strikes, spot) ==
  /\ QLess(Num(0), strikes.putBuy)
  /\ QLess(strikes.putBuy, strikes.putSell)
  /\ QLess(strikes.putSell, spot)
  /\ QLess(spot, strikes.callSell)
  /\ QLess(strikes.callSell, strikes.callBuy)

\* C27: every iron condor a generator emits for price > 0, iv > 0 and dte > 0 has
\* strikes ordered 0 < putBuy < putSell < spot price < callSell < callBuy
C27_IronCondorStrikesOrdered ==
  ValidSnapshot =>
    \A i \in 1..Len(candidates) :
       candidates[i].type = "iron_condor"
         => OrderedAroundSpot(candidates[i].strikes, market.currentPrice)

\* a candidate is directional: it carries a bullish or bearish direction
Directional(c) == c.direction \in {"bullish", "bearish"}

\* the direction of a candidate is opposite to a non-neutral trend
OpposesTrend(c, trend) == Directional(c) /\ trend # "neutral" /\ c.direction # trend

\* C28: generateAllStrategies emits no directional candidate (vertical spread,
\* cash-secured put, diagonal spread) whose direction is opposite to a
\* non-neutral trend, so the direction fit it awards is 10 or 7 and never 3
C28_NoOpposedCandidate ==
  pipeline = "enhanced" =>
    \A i \in 1..Len(candidates) :
       /\ ~OpposesTrend(candidates[i], market.taScore.trend)
       /\ EnhancedDirectionTerm(candidates[i], market.taScore) \in {10, 7}

\* a bearish trend with a bearish vertical spread and a bearish diagonal spread,
\* both awarded the full direction fit
C28_Witness ==
  /\ pipeline = "enhanced"
  /\ market.taScore.trend = "bearish"
  /\ \E i, j \in 1..Len(candidates) :
        /\ candidates[i].type = "vertical_spread"
        /\ candidates[i].direction = "bearish"
        /\ candidates[j].type = "diagonal_spread"
        /\ candidates[j].direction = "bearish"
        /\ EnhancedDirectionTerm(candidates[i], market.taScore) = 10
        /\ EnhancedDirectionTerm(candidates[j], market.taScore) = 10

\* the estimated iron-condor fallback of the real-price pipeline
IsFallback(c) == c.type = "iron_condor" /\ ~c.usingRealPrices

\* the parsed chain handed to the real-price pipeline has calls and puts
HasOptions ==
  Len(market.optionsChain.calls) > 0 /\ Len(market.optionsChain.puts) > 0

\* C29: for every valid input generateAllStrategies and
\* generateStrategiesWithRealPrices return at least one and at most three
\* candidates; the estimated-mode pipeline always holds a vertical spread before
\* truncation, and the real-price pipeline holds the estimated iron-condor
\* fallback exactly when it produced no real-price strategy
C29_OneToThreeCandidates ==
  (Ranked /\ ValidSnapshot) =>
    /\ Len(ranked) >= 1
    /\ Len(ranked) <= 3
    /\ pipeline = "enhanced" =>
          \E i \in 1..Len(candidates) : candidates[i].type = "vertical_spread"
    /\ pipeline = "real" =>
          IF \E i \in 1..Len(candidates) : candidates[i].usingRealPrices
          THEN HasOptions /\ \A i \in 1..Len(candidates) : ~IsFallback(candidates[i])
          ELSE ~HasOptions /\ Len(candidates) = 1 /\ IsFallback(candidates[1])

\* a real-price run over a chain with puts and no calls returned the fallback alone
C29_Witness ==
  /\ Ranked
  /\ ValidSnapshot
  /\ pipeline = "real"
  /\ Len(market.optionsChain.puts) > 0
  /\ Len(market.optionsChain.calls) = 0
  /\ Len(ranked) = 1
  /\ IsFallback(ranked[1])


\* ---------------------------------------------------------------------------
\* C21: running the full pipeline (chain parsing, generation, scoring,
\* ranking) twice on the same market snapshot and the same raw contract list
\* yields identical outputs, whatever the wall-clock time of each run.  The
\* ranks are compared where the comparator is consistent, so that both runs
\* sort the same way on every engine.
SameOutputs ==
  /\ candidates = firstRun.candidates
  /\ ConsistentComparator(candidates) => ranked = firstRun.ranked

C21_RerunIdentical == firstRun # NoRun => SameOutputs


\* ---------------------------------------------------------------------------
\* C24: fetchWithRetry performs at most `retries` fetch attempts and ends in
\* one of two outcomes, whatever the upstream answers: it resolves with the
\* parsed JSON body of an ok response, or it rejects with an error after the
\* last failed attempt.
FetchFinished == fetchCall.outcome \notin {"idle", "pending"}

LastResponse == responses[Len(responses)]

C24_ResolvesJsonOrRejects ==
  FetchFinished =>
    /\ fetchCall.attempts <= fetchCall.retries
    /\ \/ fetchCall.outcome = "json" /\ LastResponse = "ok"
       \/ /\ fetchCall.outcome = "rejected"
          /\ fetchCall.attempts = fetchCall.retries
          /\ LastResponse # "ok"


\* ---------------------------------------------------------------------------
\* C23: after setCache(key, data, ttl) executed at time t, and with no later
\* set or clear of that key, getCache(key) returns data at every time up to
\* and including t + ttl*1000 ms and returns null at every later time,
\* removing the expired entry from the map; the default ttl is 300 seconds.
StatedDefaultTtl == 300

\* t + ttl*1000 of the setCache call a getCache call looks back on
StatedDeadline(w) ==
  w.at + (IF w.ttl.omitted THEN StatedDefaultTtl ELSE w.ttl.ttl) * 1000

C23_WitnessExpired ==
  /\ lastGet # NoGet
  /\ lastGet.since # NoWrite
  /\ lastGet.at > StatedDeadline(lastGet.since)
  /\ ~lastGet.returned.hit


\* ---------------------------------------------------------------------------
\* C30: across any sequence of invocations of the caching analyze handler, a
\* result is written to the cache only after a successful analysis (an
\* invocation that ends in an error response leaves the cache unchanged), and
\* an invocation that finds an unexpired entry for its key returns that
\* stored result with cached = true without any upstream fetch and without
\* modifying the entry.
Failed(inv) == inv.pc = "responded" /\ inv.status # 200

\* since the invocation began no entry was added or replaced
NothingWrittenSince(inv) ==
  \A k \in DOMAIN cache : k \in DOMAIN inv.before /\ cache[k] = inv.before[k]

\* since the invocation began nothing was removed but an expired entry
OnlyExpiredRemovedSince(inv) ==
  \A k \in DOMAIN inv.before \ DOMAIN cache : inv.at > inv.before[k].expiry

\* the invocation looked its key up and the Map held an unexpired entry for it
FoundUnexpired(inv) ==
  /\ inv.looked
  /\ CacheKey(inv.req) \in DOMAIN inv.before
  /\ inv.at <= inv.before[CacheKey(inv.req)].expiry

\* the stored result is answered with cached = true and nothing else happens
AnsweredFromCache(inv) ==
  /\ inv.pc = "responded"
  /\ inv.status = 200
  /\ inv.body = [inv.before[CacheKey(inv.req)].data EXCEPT !.cached = TRUE]
  /\ ~inv.fetched
  /\ cache = inv.before

WrittenOnlyAfterSuccess(inv) ==
  (inv.pc # "responded" \/ inv.status # 200) => NothingWrittenSince(inv)

\* the claim as stated: a failed invocation leaves the Map as it found it
C30_CacheUnchangedOnError ==
  \A s \in Slots :
     /\ WrittenOnlyAfterSuccess(invocations[s])
     /\ Failed(invocations[s]) => cache = invocations[s].before
     /\ FoundUnexpired(invocations[s]) => AnsweredFromCache(invocations[s])

\* C30 as the code has it: a failed invocation writes nothing and removes
\* nothing but an expired entry, the one getCache deletes for its key
C30_NoWriteOnError ==
  \A s \in Slots :
     /\ WrittenOnlyAfterSuccess(invocations[s])
     /\ Failed(invocations[s]) =>
          /\ NothingWrittenSince(invocations[s])
          /\ OnlyExpiredRemovedSince(invocations[s])
     /\ FoundUnexpired(invocations[s]) => AnsweredFromCache(invocations[s])

\* an invocation found the expired entry of its key, removed it, and failed
C30_Witness ==
  \E s \in Slots :
     /\ Failed(invocations[s])
     /\ invocations[s].status = 500
     /\ cache # invocations[s].before

\* an invocation was answered from the cache at the very instant of expiry
C30_WitnessHit ==
  \E s \in Slots :
     /\ FoundUnexpired(invocations[s])
     /\ invocations[s].at = invocations[s].before[CacheKey(invocations[s].req)].expiry
     /\ invocations[s].body.cached

====
